---- MODULE Spec2Model ----
(***************************************************************************)
(* KiCAD-Prism: the workflow panel (WorkflowsPanel of the project detail   *)
(* page) polling the job registry, and the Visualizer's comment list kept  *)
(* against the per-project comment ledger.                                 *)
(*                                                                         *)
(* The front end is translated from the TypeScript sources.  The backend   *)
(* (Workflow Job Orchestrator, Process Runner, Job Registry, Comment       *)
(* Store) is not part of the sources at hand and is modelled from the      *)
(* design document, sections 3 and 4.                                      *)
(***************************************************************************)
EXTENDS Integers, Sequences, FiniteSets, TLC

VARIABLES
    \* ---- backend: job orchestration ----
    project,        \* what the project directory holds (job-definition file, outputs)
    jobs,           \* the Job Registry: job id (index) -> job record
    \* ---- WorkflowsPanel ----
    runningJob,     \* useState runningJob: None or [id, type]
    logs,           \* useState logs
    status,         \* useState status
    interval,       \* the live setInterval of the poll effect: 0, or the job id it polls
    clearTimers,    \* pending setTimeout(clearInterval) callbacks, by interval
    submits,        \* runWorkflow invocations: [type, pc, out, job], kept after they return
    polls,          \* poll callbacks awaiting fetch, or holding its response or its failure
    shownJob,       \* the job whose poll response wrote logs/status last (0: runWorkflow did)
    \* ---- backend: comment store ----
    ledger,         \* comments of the project's ledger document, in insertion order
    nextId,         \* next generated comment id
    \* ---- Visualizer ----
    comments,       \* useState comments
    pendingLocation,      \* useState pendingLocation (TRUE: a location is pending)
    showCommentForm,      \* useState showCommentForm
    isSubmittingComment,  \* useState isSubmittingComment
    calls,          \* comment handler invocations, kept after they return
    activeContext,        \* useState activeContext: "PCB" or "SCH"
    activePage,           \* useState activePage
    pendingContext,       \* useState pendingContext
    isPushingComments,    \* useState isPushingComments
    pushMessage,          \* useState pushMessage: [type, of], the result of push request `of`
    showPushDialog,       \* useState showPushDialog
    pushTimers,           \* pending setTimeout(() => setPushMessage(null), 5000), by push request
    \* ---- ProjectDetailPage ----
    syncing,        \* useState syncing
    syncMessage,    \* useState syncMessage: "none", "ok" or "failed"
    \* ---- backend: version-control sync gateway ----
    gitOps,         \* sync / pushReview requests: [kind, pc, out, live], kept after they return
    workingCopyLock,\* the request whose operation holds the project's working copy (0: none)
    dirty,          \* paths of the working copy with uncommitted changes
    commits,        \* the commits pushReview made: [paths, left]
    \* ---- App and LoginPage ----
    serverAuth,     \* the backend's authentication settings
    user,           \* useState user of App
    authConfig,     \* useState authConfig of App
    loading,        \* useState loading of App
    authFetch,      \* fetchAuthConfig: "sent", its outcome, or "done"
    loginError,     \* useState error of LoginPage: "none" or "error"
    isLoading,      \* useState isLoading of LoginPage
    logins,         \* handleSuccess invocations: [cred, pc, out], kept after they return
    \* ---- CommentOverlay ----
    ovComments,     \* the comments prop, by id
    updateClosure,  \* the comments of the updatePositions the listeners and interval call
    effectPending,  \* the listener effect is due (mount, or updatePositions changed)
    listening,      \* listeners and interval are installed
    viewerView,     \* the viewer's current transform
    viewerHasHelper,\* the viewer offers getScreenLocation
    pinPositions,   \* useState pinPositions
    rafQueue        \* requested animation frames, by the comments of their updatePositions

wfVars == <<project, jobs, runningJob, logs, status, interval, clearTimers,
            submits, polls, shownJob>>
cmVars == <<ledger, nextId, comments, pendingLocation, showCommentForm,
            isSubmittingComment, calls, activeContext, activePage, pendingContext>>
gwVars == <<isPushingComments, pushMessage, showPushDialog, pushTimers,
            syncing, syncMessage, gitOps, workingCopyLock, dirty, commits>>
appVars == <<serverAuth, user, authConfig, loading, authFetch, loginError,
             isLoading, logins>>
ovVars == <<ovComments, updateClosure, effectPending, listening, viewerView,
            viewerHasHelper, pinPositions, rafQueue>>
vars == <<project, jobs, runningJob, logs, status, interval, clearTimers,
          submits, polls, shownJob,
          ledger, nextId, comments, pendingLocation, showCommentForm,
          isSubmittingComment, calls, activeContext, activePage, pendingContext,
          isPushingComments, pushMessage, showPushDialog, pushTimers,
          syncing, syncMessage, gitOps, workingCopyLock, dirty, commits,
          serverAuth, user, authConfig, loading, authFetch, loginError,
          isLoading, logins,
          ovComments, updateClosure, effectPending, listening, viewerView,
          viewerHasHelper, pinPositions, rafQueue>>

-----------------------------------------------------------------------------
(* Bounds of the model *)

MaxSubmits == 2      \* runWorkflow invocations in one behaviour
MaxLog == 2          \* output lines one tool run produces
MaxInFlight == 2     \* poll callbacks awaiting or holding a response at once
MaxCalls == 2        \* comment handler invocations in one behaviour
MaxGitOps == 2       \* sync and push requests in one behaviour
MaxLogins == 2       \* handleSuccess invocations in one behaviour
MaxPins == 2         \* comments handed to the overlay
MaxPan == 1          \* positions the view is panned to
MaxRaf == 1          \* animation frames requested and not run yet

-----------------------------------------------------------------------------
(* Backend: Workflow Job Orchestrator, Process Runner, Job Registry *)

WorkflowTypes == {"design", "manufacturing", "render"}

JobStatuses == {"queued", "running", "completed", "failed"}

TerminalStatuses == {"completed", "failed"}

\* The project states a behaviour starts from: no such project, a project
\* without job-definition file, and a job-definition file that defines the
\* design output and not the other two.
ProjectStates ==
    { [exists |-> FALSE, jobset |-> FALSE, outputs |-> {}],
      [exists |-> TRUE,  jobset |-> FALSE, outputs |-> {}],
      [exists |-> TRUE,  jobset |-> TRUE,  outputs |-> {"design"}] }

\* submit's validation: the error it fails with, or "ok".
SubmitOutcome(p, type) ==
    IF type \notin WorkflowTypes THEN "InvalidWorkflowType"
    ELSE IF ~p.exists THEN "ProjectNotFound"
    ELSE IF ~p.jobset THEN "JobsetMissing"
    ELSE IF type \notin p.outputs THEN "OutputNotDefined"
    ELSE "ok"

NewJob(type) ==
    [type |-> type, status |-> "queued", logs |-> <<>>, exitCode |-> -1]

\* get(jobId): a snapshot of the record, or JobNotFound.
GetJob(reg, id) ==
    IF id \in DOMAIN reg
    THEN [ok |-> TRUE, status |-> reg[id].status, logs |-> reg[id].logs]
    ELSE [ok |-> FALSE, status |-> "JobNotFound", logs |-> <<>>]

\* Process Runner: the tool's process starts.
RunnerStart(j) ==
    /\ j \in DOMAIN jobs
    /\ jobs[j].status = "queued"
    /\ jobs' = [jobs EXCEPT ![j].status = "running"]
    /\ UNCHANGED <<project, runningJob, logs, status, interval, clearTimers,
                   submits, polls, shownJob>>
    /\ UNCHANGED cmVars
    /\ UNCHANGED gwVars
    /\ UNCHANGED <<appVars, ovVars>>

\* Process Runner: the tool binary cannot be located or started.
RunnerToolNotFound(j) ==
    /\ j \in DOMAIN jobs
    /\ jobs[j].status = "queued"
    /\ jobs' = [jobs EXCEPT ![j].status = "failed",
                            ![j].logs = Append(@, "ToolNotFound")]
    /\ UNCHANGED <<project, runningJob, logs, status, interval, clearTimers,
                   submits, polls, shownJob>>
    /\ UNCHANGED cmVars
    /\ UNCHANGED gwVars
    /\ UNCHANGED <<appVars, ovVars>>

\* Process Runner: one line of the tool's output arrives.
RunnerOutput(j) ==
    /\ j \in DOMAIN jobs
    /\ jobs[j].status = "running"
    /\ Len(jobs[j].logs) < MaxLog
    /\ jobs' = [jobs EXCEPT ![j].logs = Append(@, "out")]
    /\ UNCHANGED <<project, runningJob, logs, status, interval, clearTimers,
                   submits, polls, shownJob>>
    /\ UNCHANGED cmVars
    /\ UNCHANGED gwVars
    /\ UNCHANGED <<appVars, ovVars>>

\* Process Runner: the process exits with the given code.
RunnerExit(j, code) ==
    /\ j \in DOMAIN jobs
    /\ jobs[j].status = "running"
    /\ jobs' = [jobs EXCEPT ![j].status = IF code = 0 THEN "completed" ELSE "failed",
                            ![j].exitCode = code]
    /\ UNCHANGED <<project, runningJob, logs, status, interval, clearTimers,
                   submits, polls, shownJob>>
    /\ UNCHANGED cmVars
    /\ UNCHANGED gwVars
    /\ UNCHANGED <<appVars, ovVars>>

-----------------------------------------------------------------------------
(* WorkflowsPanel *)

None == [id |-> 0, type |-> "none"]

\* One runWorkflow invocation: the type it was called with, where it stands
\* ("none": not called, "sent": awaiting fetch, "answered": holding the
\* response, "done": returned), the outcome of its fetch ("ok", the error of a
\* non-OK response, or "threw") and the job id of an OK response.
NoSubmit == [type |-> "none", pc |-> "none", out |-> "none", job |-> 0]

\* The first runWorkflow slot not used yet (0 when all are).
FreeSubmit ==
    IF \E i \in DOMAIN submits : submits[i].pc = "none"
    THEN CHOOSE i \in DOMAIN submits :
            /\ submits[i].pc = "none"
            /\ \A k \in DOMAIN submits : submits[k].pc = "none" => i <= k
    ELSE 0

\* The workflow cards are disabled while status is "running".
ButtonsDisabled == status = "running"

\* runWorkflow up to its await: setLogs([]), setStatus("running"), fetch(POST).
RunWorkflow(type) ==
    /\ ~ButtonsDisabled
    /\ FreeSubmit # 0
    /\ logs' = <<>>
    /\ status' = "running"
    /\ shownJob' = 0
    /\ submits' = [submits EXCEPT ![FreeSubmit] =
                        [type |-> type, pc |-> "sent", out |-> "none", job |-> 0]]
    /\ UNCHANGED <<project, jobs, runningJob, interval, clearTimers, polls>>
    /\ UNCHANGED cmVars
    /\ UNCHANGED gwVars
    /\ UNCHANGED <<appVars, ovVars>>

\* The backend's submit: validate, then allocate the job and answer at once.
SubmitServe(i) ==
    /\ submits[i].pc = "sent"
    /\ LET out == SubmitOutcome(project, submits[i].type)
       IN IF out = "ok"
          THEN /\ jobs' = Append(jobs, NewJob(submits[i].type))
               /\ submits' = [submits EXCEPT ![i].pc = "answered", ![i].out = "ok",
                                             ![i].job = Len(jobs) + 1]
          ELSE /\ jobs' = jobs
               /\ submits' = [submits EXCEPT ![i].pc = "answered", ![i].out = out]
    /\ UNCHANGED <<project, runningJob, logs, status, interval, clearTimers,
                   polls, shownJob>>
    /\ UNCHANGED cmVars
    /\ UNCHANGED gwVars
    /\ UNCHANGED <<appVars, ovVars>>

\* The fetch of runWorkflow throws (network): the request never arrives.
SubmitThrow(i) ==
    /\ submits[i].pc = "sent"
    /\ submits' = [submits EXCEPT ![i].pc = "answered", ![i].out = "threw"]
    /\ UNCHANGED <<project, jobs, runningJob, logs, status, interval, clearTimers,
                   polls, shownJob>>
    /\ UNCHANGED cmVars
    /\ UNCHANGED gwVars
    /\ UNCHANGED <<appVars, ovVars>>

\* runWorkflow after its await, res.ok: setRunningJob; the poll effect's cleanup
\* clears the old interval and the effect starts the interval of the new job.
SubmitApplyOk(i) ==
    /\ submits[i].pc = "answered"
    /\ submits[i].out = "ok"
    /\ runningJob' = [id |-> submits[i].job, type |-> submits[i].type]
    /\ interval' = submits[i].job
    /\ submits' = [submits EXCEPT ![i].pc = "done", ![i].type = "none"]
    /\ UNCHANGED <<project, jobs, logs, status, clearTimers, polls, shownJob>>
    /\ UNCHANGED cmVars
    /\ UNCHANGED gwVars
    /\ UNCHANGED <<appVars, ovVars>>

\* SubmitApplyErr without its setStatus("idle").
SubmitApplyErr_NoIdle(i) ==
    /\ submits[i].pc = "answered"
    /\ submits[i].out # "ok"
    /\ submits' = [submits EXCEPT ![i].pc = "done", ![i].type = "none"]
    /\ UNCHANGED <<project, jobs, runningJob, logs, status, interval, clearTimers,
                   polls, shownJob>>
    /\ UNCHANGED cmVars
    /\ UNCHANGED gwVars
    /\ UNCHANGED <<appVars, ovVars>>

\* SubmitApplyErr taking the response for an OK one: setRunningJob with the
\* job id the error body does not hold.
SubmitApplyErr_AsOk(i) ==
    /\ submits[i].pc = "answered"
    /\ submits[i].out # "ok"
    /\ runningJob' = [id |-> submits[i].job, type |-> submits[i].type]
    /\ submits' = [submits EXCEPT ![i].pc = "done", ![i].type = "none"]
    /\ UNCHANGED <<project, jobs, logs, status, interval, clearTimers,
                   polls, shownJob>>
    /\ UNCHANGED cmVars
    /\ UNCHANGED gwVars
    /\ UNCHANGED <<appVars, ovVars>>

\* SubmitApplyErr showing the rejected request as a failed job.
SubmitApplyErr_ShowsFailed(i) ==
    /\ submits[i].pc = "answered"
    /\ submits[i].out # "ok"
    /\ status' = "failed"
    /\ submits' = [submits EXCEPT ![i].pc = "done", ![i].type = "none"]
    /\ UNCHANGED <<project, jobs, runningJob, logs, interval, clearTimers,
                   polls, shownJob>>
    /\ UNCHANGED cmVars
    /\ UNCHANGED gwVars
    /\ UNCHANGED <<appVars, ovVars>>

\* runWorkflow after its await, non-OK response or catch: alert, setStatus("idle").
SubmitApplyErr(i) ==
    /\ submits[i].pc = "answered"
    /\ submits[i].out # "ok"
    /\ status' = "idle"
    /\ submits' = [submits EXCEPT ![i].pc = "done", ![i].type = "none"]
    /\ UNCHANGED <<project, jobs, runningJob, logs, interval, clearTimers,
                   polls, shownJob>>
    /\ UNCHANGED cmVars
    /\ UNCHANGED gwVars
    /\ UNCHANGED <<appVars, ovVars>>

\* A tick of the interval: the callback sends fetch(/jobs/<id>) for the job of
\* its closure.
PollTick ==
    /\ interval # 0
    /\ Cardinality(polls) < MaxInFlight
    /\ polls' = polls \cup {[job |-> interval, st |-> "sent",
                             status |-> "none", logs |-> <<>>]}
    /\ UNCHANGED <<project, jobs, runningJob, logs, status, interval, clearTimers,
                   submits, shownJob>>
    /\ UNCHANGED cmVars
    /\ UNCHANGED gwVars
    /\ UNCHANGED <<appVars, ovVars>>

\* The backend answers a poll: with the snapshot of that moment, or non-OK
\* with JobNotFound.
PollServe(m) ==
    /\ m \in polls
    /\ m.st = "sent"
    /\ polls' = (polls \ {m}) \cup
                    {[job |-> m.job,
                      st |-> IF GetJob(jobs, m.job).ok THEN "ok" ELSE "error",
                      status |-> GetJob(jobs, m.job).status,
                      logs |-> GetJob(jobs, m.job).logs]}
    /\ UNCHANGED <<project, jobs, runningJob, logs, status, interval, clearTimers,
                   submits, shownJob>>
    /\ UNCHANGED cmVars
    /\ UNCHANGED gwVars
    /\ UNCHANGED <<appVars, ovVars>>

\* The poll callback after its await, res.ok: setLogs, setStatus, and on a
\* terminal status the timeout that clears this interval.
PollApply(m) ==
    /\ m \in polls
    /\ m.st = "ok"
    /\ logs' = m.logs
    /\ status' = m.status
    /\ shownJob' = m.job
    /\ clearTimers' = IF m.status \in TerminalStatuses
                      THEN clearTimers \cup {m.job}
                      ELSE clearTimers
    /\ polls' = polls \ {m}
    /\ UNCHANGED <<project, jobs, runningJob, interval, submits>>
    /\ UNCHANGED cmVars
    /\ UNCHANGED gwVars
    /\ UNCHANGED <<appVars, ovVars>>

\* The fetch of a poll throws (network): the request never arrives.
PollThrow(m) ==
    /\ m \in polls
    /\ m.st = "sent"
    /\ polls' = (polls \ {m}) \cup
                    {[job |-> m.job, st |-> "error", status |-> "threw", logs |-> <<>>]}
    /\ UNCHANGED <<project, jobs, runningJob, logs, status, interval, clearTimers,
                   submits, shownJob>>
    /\ UNCHANGED cmVars
    /\ UNCHANGED gwVars
    /\ UNCHANGED <<appVars, ovVars>>

\* The poll callback after a non-OK response or a throw, taking the panel
\* back to idle.
PollFail_Idle(m) ==
    /\ m \in polls
    /\ m.st = "error"
    /\ polls' = polls \ {m}
    /\ logs' = <<>>
    /\ status' = "idle"
    /\ UNCHANGED <<project, jobs, runningJob, interval, clearTimers,
                   submits, shownJob>>
    /\ UNCHANGED cmVars
    /\ UNCHANGED gwVars
    /\ UNCHANGED <<appVars, ovVars>>

\* The poll callback after a non-OK response (res.ok is false) or in its catch
\* block: nothing is set.
PollFail(m) ==
    /\ m \in polls
    /\ m.st = "error"
    /\ polls' = polls \ {m}
    /\ UNCHANGED <<project, jobs, runningJob, logs, status, interval, clearTimers,
                   submits, shownJob>>
    /\ UNCHANGED cmVars
    /\ UNCHANGED gwVars
    /\ UNCHANGED <<appVars, ovVars>>

\* The timeout fires: clearInterval(pollInterval) of the effect run that set it.
ClearTimerFire(j) ==
    /\ j \in clearTimers
    /\ clearTimers' = clearTimers \ {j}
    /\ interval' = IF interval = j THEN 0 ELSE interval
    /\ UNCHANGED <<project, jobs, runningJob, logs, status, submits, polls,
                   shownJob>>
    /\ UNCHANGED cmVars
    /\ UNCHANGED gwVars
    /\ UNCHANGED <<appVars, ovVars>>

-----------------------------------------------------------------------------
(* Backend: Comment Store (every operation runs under the project's lock) *)

CommentStatuses == {"OPEN", "RESOLVED"}

\* The texts a reply is written with.
Contents == {"a", "b"}

\* The contexts a comment is anchored in.
CommentContexts == {"PCB", "SCH"}

\* A page is the sequence of the segments of its path; the empty string is
\* the empty sequence.
EmptyPage == <<>>

RootPage == <<"root.kicad_sch">>

\* The sheets the viewer loads.
Pages == {RootPage, <<"Subsheets", "power.kicad_sch">>}

NoComment == [id |-> 0, status |-> "none", replies |-> <<>>,
              context |-> "none", page |-> EmptyPage]

Ids(seq) == {seq[k].id : k \in DOMAIN seq}

\* The entry of seq with the given id (NoComment when there is none).
Entry(seq, id) ==
    IF id \in Ids(seq)
    THEN seq[CHOOSE k \in DOMAIN seq : seq[k].id = id]
    ELSE NoComment

\* create: a new OPEN comment with a generated id, the context and location
\* of the request and no replies, appended.
StoreCreate(led, id, context, page) ==
    Append(led, [id |-> id, status |-> "OPEN", replies |-> <<>>,
                 context |-> context, page |-> page])

\* reply: appends to the target comment's replies.
StoreReply(led, id, content) ==
    [k \in DOMAIN led |->
        IF led[k].id = id
        THEN [led[k] EXCEPT !.replies = Append(@, content)]
        ELSE led[k]]

\* setStatus: sets the target comment's status.
StoreSetStatus(led, id, st) ==
    [k \in DOMAIN led |->
        IF led[k].id = id THEN [led[k] EXCEPT !.status = st] ELSE led[k]]

\* delete: removes the entry.
StoreDelete(led, id) ==
    SelectSeq(led, LAMBDA c : c.id # id)

-----------------------------------------------------------------------------
(* Visualizer: the comment list *)

\* One handler invocation: kind "create" (handleSubmitComment), "resolve"
\* (handleResolveComment), "reply" (handleReplyComment) or "delete"
\* (handleDeleteComment); the comment id and the status or text it was called
\* with; where it stands ("sent": awaiting fetch, "answered": holding the
\* response, "done": returned); the outcome of its fetch ("ok",
\* "CommentNotFound" or "threw"); the comment of an OK response (of a create,
\* its id is kept in `id`); the value of `comments` in the render the
\* handler was created in; and, of a create, the context and page of the
\* request with the active context and page of the moment it was sent.  A
\* returned invocation keeps kind, id, arg and out.
NoCall ==
    [kind |-> "none", id |-> 0, arg |-> "none", pc |-> "none", out |-> "none",
     resp |-> NoComment, seen |-> <<>>,
     context |-> "none", page |-> EmptyPage,
     atContext |-> "none", atPage |-> EmptyPage]

\* The first invocation slot not used yet (0 when all are).
FreeCall ==
    IF \E i \in DOMAIN calls : calls[i].pc = "none"
    THEN CHOOSE i \in DOMAIN calls :
            /\ calls[i].pc = "none"
            /\ \A k \in DOMAIN calls : calls[k].pc = "none" => i <= k
    ELSE 0

\* setComments(prev => [...prev, stale-closure list plus the new comment]).
AddComment_StaleClosure(prev, seen, c) == Append(seen, c)

\* setComments(prev => [...prev, newComment])
AddComment(prev, seen, c) == Append(prev, c)

\* setComments(prev => [...prev, updated]).
ReplaceComment_Appends(prev, id, updated) == Append(prev, updated)

\* setComments(prev => [...prev.filter(c => c.id !== commentId), updated]).
ReplaceComment_MovesToEnd(prev, id, updated) ==
    IF id \in Ids(prev)
    THEN Append(SelectSeq(prev, LAMBDA c : c.id # id), updated)
    ELSE prev

\* The replacement adding the updated comment when the list does not hold it.
ReplaceComment_Upsert(prev, id, updated) ==
    IF id \in Ids(prev)
    THEN [k \in DOMAIN prev |-> IF prev[k].id = id THEN updated ELSE prev[k]]
    ELSE Append(prev, updated)

\* setComments(prev => prev.map(c => c.id === commentId ? updated : c))
ReplaceComment(prev, id, updated) ==
    [k \in DOMAIN prev |-> IF prev[k].id = id THEN updated ELSE prev[k]]

\* setComments(prev => prev.filter(c => c.id === commentId)).
RemoveComment_Inverted(prev, id) == SelectSeq(prev, LAMBDA c : c.id = id)

\* setComments(prev => prev.filter(c => c.id !== commentId))
RemoveComment(prev, id) == SelectSeq(prev, LAMBDA c : c.id # id)

\* norm of the overlay filter: the last segment of the path, or the whole
\* path when that segment is empty.
Norm(p) ==
    IF p = EmptyPage THEN EmptyPage
    ELSE IF p[Len(p)] # "" THEN <<p[Len(p)]>>
    ELSE p

\* "root.kicad_sch" and "root" are the root sheet.
IsRoot(p) == p \in {<<"root.kicad_sch">>, <<"root">>}

\* The overlay filter testing the context alone.
InOverlay_ContextOnly(c, context, page) == c.context = context

\* The test of the overlay filter for one comment.
InOverlay(c, context, page) ==
    IF c.context # context THEN FALSE
    ELSE IF context = "SCH"
         THEN \/ IsRoot(Norm(page)) /\ IsRoot(Norm(c.page))
              \/ Norm(c.page) = Norm(page)
         ELSE TRUE

\* overlayComments: the comments handed to the overlay.
OverlayComments(cs, context, page) ==
    SelectSeq(cs, LAMBDA c : InOverlay(c, context, page))

\* The viewer reports a click in comment mode: handleCommentClick, the event
\* naming a context or none.
HandleCommentClick(context) ==
    /\ pendingLocation' = TRUE
    /\ pendingContext' = IF context = "none" THEN activeContext ELSE context
    /\ showCommentForm' = TRUE
    /\ UNCHANGED <<ledger, nextId, comments, isSubmittingComment, calls,
                   activeContext, activePage>>
    /\ UNCHANGED wfVars
    /\ UNCHANGED gwVars
    /\ UNCHANGED <<appVars, ovVars>>

\* The viewer activates a tab: handleTabActivate.
HandleTabActivate(kind) ==
    /\ kind # activeContext
    /\ activeContext' = kind
    /\ UNCHANGED <<ledger, nextId, comments, pendingLocation, showCommentForm,
                   isSubmittingComment, calls, activePage, pendingContext>>
    /\ UNCHANGED wfVars
    /\ UNCHANGED gwVars
    /\ UNCHANGED <<appVars, ovVars>>

\* The viewer loads a sheet: handleSheetLoad.
HandleSheetLoad(page) ==
    /\ page # activePage
    /\ activePage' = page
    /\ UNCHANGED <<ledger, nextId, comments, pendingLocation, showCommentForm,
                   isSubmittingComment, calls, activeContext, pendingContext>>
    /\ UNCHANGED wfVars
    /\ UNCHANGED gwVars
    /\ UNCHANGED <<appVars, ovVars>>

\* handleSubmitComment up to its await; the form calls it while it is open.
HandleSubmitComment ==
    /\ showCommentForm
    /\ pendingLocation
    /\ FreeCall # 0
    /\ isSubmittingComment' = TRUE
    /\ calls' = [calls EXCEPT ![FreeCall] =
                    [NoCall EXCEPT !.kind = "create", !.pc = "sent", !.seen = comments,
                        !.context = pendingContext,
                        !.page = IF pendingContext = "SCH" THEN activePage ELSE EmptyPage,
                        !.atContext = activeContext, !.atPage = activePage]]
    /\ UNCHANGED <<ledger, nextId, comments, pendingLocation, showCommentForm,
                   activeContext, activePage, pendingContext>>
    /\ UNCHANGED wfVars
    /\ UNCHANGED gwVars
    /\ UNCHANGED <<appVars, ovVars>>

\* handleResolveComment up to its await, called by the panel for a listed comment.
HandleResolveComment(id, resolved) ==
    /\ id \in Ids(comments)
    /\ FreeCall # 0
    /\ calls' = [calls EXCEPT ![FreeCall] =
                    [NoCall EXCEPT !.kind = "resolve", !.id = id, !.pc = "sent",
                                   !.arg = IF resolved THEN "RESOLVED" ELSE "OPEN"]]
    /\ UNCHANGED <<ledger, nextId, comments, pendingLocation, showCommentForm,
                   isSubmittingComment>>
    /\ UNCHANGED <<activeContext, activePage, pendingContext>>
    /\ UNCHANGED wfVars
    /\ UNCHANGED gwVars
    /\ UNCHANGED <<appVars, ovVars>>

\* handleReplyComment up to its await, called by the panel for a listed comment.
HandleReplyComment(id, content) ==
    /\ id \in Ids(comments)
    /\ FreeCall # 0
    /\ calls' = [calls EXCEPT ![FreeCall] =
                    [NoCall EXCEPT !.kind = "reply", !.id = id, !.pc = "sent",
                                   !.arg = content]]
    /\ UNCHANGED <<ledger, nextId, comments, pendingLocation, showCommentForm,
                   isSubmittingComment>>
    /\ UNCHANGED <<activeContext, activePage, pendingContext>>
    /\ UNCHANGED wfVars
    /\ UNCHANGED gwVars
    /\ UNCHANGED <<appVars, ovVars>>

\* handleDeleteComment up to its await, called by the panel for a listed comment.
HandleDeleteComment(id) ==
    /\ id \in Ids(comments)
    /\ FreeCall # 0
    /\ calls' = [calls EXCEPT ![FreeCall] =
                    [NoCall EXCEPT !.kind = "delete", !.id = id, !.pc = "sent"]]
    /\ UNCHANGED <<ledger, nextId, comments, pendingLocation, showCommentForm,
                   isSubmittingComment>>
    /\ UNCHANGED <<activeContext, activePage, pendingContext>>
    /\ UNCHANGED wfVars
    /\ UNCHANGED gwVars
    /\ UNCHANGED <<appVars, ovVars>>

\* The Comment Store serves one request: the mutation under the project's
\* lock, and the answer.
StoreServe(i) ==
    /\ calls[i].pc = "sent"
    /\ LET c == calls[i] IN
         CASE c.kind = "create" ->
                /\ ledger' = StoreCreate(ledger, nextId, c.context, c.page)
                /\ nextId' = nextId + 1
                /\ calls' = [calls EXCEPT ![i].pc = "answered", ![i].out = "ok",
                                ![i].id = nextId,
                                ![i].resp = Entry(StoreCreate(ledger, nextId, c.context, c.page),
                                                  nextId)]
           [] c.kind \in {"resolve", "reply", "delete"} /\ c.id \notin Ids(ledger) ->
                /\ calls' = [calls EXCEPT ![i].pc = "answered",
                                          ![i].out = "CommentNotFound"]
                /\ UNCHANGED <<ledger, nextId>>
           [] c.kind = "resolve" /\ c.id \in Ids(ledger) ->
                /\ ledger' = StoreSetStatus(ledger, c.id, c.arg)
                /\ calls' = [calls EXCEPT ![i].pc = "answered", ![i].out = "ok",
                                ![i].resp = Entry(StoreSetStatus(ledger, c.id, c.arg), c.id)]
                /\ UNCHANGED nextId
           [] c.kind = "reply" /\ c.id \in Ids(ledger) ->
                /\ ledger' = StoreReply(ledger, c.id, c.arg)
                /\ calls' = [calls EXCEPT ![i].pc = "answered", ![i].out = "ok",
                                ![i].resp = Entry(StoreReply(ledger, c.id, c.arg), c.id)]
                /\ UNCHANGED nextId
           [] c.kind = "delete" /\ c.id \in Ids(ledger) ->
                /\ ledger' = StoreDelete(ledger, c.id)
                /\ calls' = [calls EXCEPT ![i].pc = "answered", ![i].out = "ok"]
                /\ UNCHANGED nextId
    /\ UNCHANGED <<comments, pendingLocation, showCommentForm, isSubmittingComment>>
    /\ UNCHANGED <<activeContext, activePage, pendingContext>>
    /\ UNCHANGED wfVars
    /\ UNCHANGED gwVars
    /\ UNCHANGED <<appVars, ovVars>>

\* The fetch of a handler throws (network): the request never arrives.
CallThrow(i) ==
    /\ calls[i].pc = "sent"
    /\ calls' = [calls EXCEPT ![i].pc = "answered", ![i].out = "threw"]
    /\ UNCHANGED <<ledger, nextId, comments, pendingLocation, showCommentForm,
                   isSubmittingComment>>
    /\ UNCHANGED <<activeContext, activePage, pendingContext>>
    /\ UNCHANGED wfVars
    /\ UNCHANGED gwVars
    /\ UNCHANGED <<appVars, ovVars>>

\* handleSubmitComment after its await: on response.ok the comment is added and
\* the form closed; the finally block resets isSubmittingComment.
SubmitCommentReturn(i) ==
    /\ calls[i].kind = "create"
    /\ calls[i].pc = "answered"
    /\ IF calls[i].out = "ok"
       THEN /\ comments' = AddComment(comments, calls[i].seen, calls[i].resp)
            /\ showCommentForm' = FALSE
            /\ pendingLocation' = FALSE
       ELSE UNCHANGED <<comments, showCommentForm, pendingLocation>>
    /\ isSubmittingComment' = FALSE
    /\ calls' = [calls EXCEPT ![i].pc = "done", ![i].resp = NoComment, ![i].seen = <<>>,
                              ![i].context = "none", ![i].page = EmptyPage,
                              ![i].atContext = "none", ![i].atPage = EmptyPage]
    /\ UNCHANGED <<ledger, nextId>>
    /\ UNCHANGED <<activeContext, activePage, pendingContext>>
    /\ UNCHANGED wfVars
    /\ UNCHANGED gwVars
    /\ UNCHANGED <<appVars, ovVars>>

\* handleResolveComment after its await.
ResolveCommentReturn(i) ==
    /\ calls[i].kind = "resolve"
    /\ calls[i].pc = "answered"
    /\ comments' = IF calls[i].out = "ok"
                   THEN ReplaceComment(comments, calls[i].id, calls[i].resp)
                   ELSE comments
    /\ calls' = [calls EXCEPT ![i].pc = "done", ![i].resp = NoComment]
    /\ UNCHANGED <<ledger, nextId, pendingLocation, showCommentForm, isSubmittingComment>>
    /\ UNCHANGED <<activeContext, activePage, pendingContext>>
    /\ UNCHANGED wfVars
    /\ UNCHANGED gwVars
    /\ UNCHANGED <<appVars, ovVars>>

\* handleReplyComment after its await, without the test of response.ok.
ReplyCommentReturn_NoOkTest(i) ==
    /\ calls[i].kind = "reply"
    /\ calls[i].pc = "answered"
    /\ comments' = ReplaceComment(comments, calls[i].id, calls[i].resp)
    /\ calls' = [calls EXCEPT ![i].pc = "done", ![i].resp = NoComment]
    /\ UNCHANGED <<ledger, nextId, pendingLocation, showCommentForm, isSubmittingComment>>
    /\ UNCHANGED <<activeContext, activePage, pendingContext>>
    /\ UNCHANGED wfVars
    /\ UNCHANGED gwVars
    /\ UNCHANGED <<appVars, ovVars>>

\* handleReplyComment after its await.
ReplyCommentReturn(i) ==
    /\ calls[i].kind = "reply"
    /\ calls[i].pc = "answered"
    /\ comments' = IF calls[i].out = "ok"
                   THEN ReplaceComment(comments, calls[i].id, calls[i].resp)
                   ELSE comments
    /\ calls' = [calls EXCEPT ![i].pc = "done", ![i].resp = NoComment]
    /\ UNCHANGED <<ledger, nextId, pendingLocation, showCommentForm, isSubmittingComment>>
    /\ UNCHANGED <<activeContext, activePage, pendingContext>>
    /\ UNCHANGED wfVars
    /\ UNCHANGED gwVars
    /\ UNCHANGED <<appVars, ovVars>>

\* handleDeleteComment after its await.
DeleteCommentReturn(i) ==
    /\ calls[i].kind = "delete"
    /\ calls[i].pc = "answered"
    /\ comments' = IF calls[i].out = "ok"
                   THEN RemoveComment(comments, calls[i].id)
                   ELSE comments
    /\ calls' = [calls EXCEPT ![i].pc = "done", ![i].resp = NoComment]
    /\ UNCHANGED <<ledger, nextId, pendingLocation, showCommentForm, isSubmittingComment>>
    /\ UNCHANGED <<activeContext, activePage, pendingContext>>
    /\ UNCHANGED wfVars
    /\ UNCHANGED gwVars
    /\ UNCHANGED <<appVars, ovVars>>

-----------------------------------------------------------------------------
(* App: authentication gate *)

\* The modes of the deployment guide: what /api/auth/config answers with.
PublicGallery == [auth_enabled |-> FALSE, dev_mode |-> FALSE, google_client_id |-> FALSE]

Development == [auth_enabled |-> TRUE, dev_mode |-> TRUE, google_client_id |-> TRUE]

Production == [auth_enabled |-> TRUE, dev_mode |-> FALSE, google_client_id |-> TRUE]

\* Production with GOOGLE_CLIENT_ID left empty.
ProductionNoClientId == [auth_enabled |-> TRUE, dev_mode |-> FALSE, google_client_id |-> FALSE]

ServerConfigs == {PublicGallery, Development, Production, ProductionNoClientId}

\* useState authConfig: null.
NoConfig == [auth_enabled |-> FALSE, dev_mode |-> FALSE, google_client_id |-> FALSE,
             null |-> TRUE]

\* The users App holds: null, the Guest user, the user a Google login
\* returned, and the Dev User of the bypass.
Users == {"none", "Guest", "Google", "Dev"}

\* The credentials GoogleLogin hands to handleSuccess: one the backend accepts,
\* one it rejects, and a response without credential.
Credentials == {"valid", "invalid", "missing"}

\* authConfig?.auth_enabled
AuthEnabled == authConfig # NoConfig /\ authConfig.auth_enabled

\* What App renders.
View ==
    IF loading THEN "loading"
    ELSE IF AuthEnabled /\ user = "none"
         THEN IF ~authConfig.google_client_id THEN "error" ELSE "login"
         ELSE "app"

\* One handleSuccess invocation of the login page.
NoLogin == [cred |-> "none", pc |-> "none", out |-> "none"]

\* The first handleSuccess slot not used yet (0 when all are).
FreeLogin ==
    IF \E i \in DOMAIN logins : logins[i].pc = "none"
    THEN CHOOSE i \in DOMAIN logins :
            /\ logins[i].pc = "none"
            /\ \A k \in DOMAIN logins : logins[k].pc = "none" => i <= k
    ELSE 0

\* The fetch of /api/auth/config ends: answered OK with the configuration,
\* answered non-OK, or thrown.
AuthConfigServe(out) ==
    /\ authFetch = "sent"
    /\ authFetch' = out
    /\ UNCHANGED <<serverAuth, user, authConfig, loading, loginError, isLoading, logins>>
    /\ UNCHANGED <<wfVars, cmVars, gwVars, ovVars>>

\* fetchAuthConfig after its await, without the automatic Guest login.
AuthConfigReturn_NoGuest ==
    /\ authFetch \in {"ok", "nonok", "threw"}
    /\ authConfig' = IF authFetch = "ok" THEN serverAuth ELSE authConfig
    /\ loading' = FALSE
    /\ authFetch' = "done"
    /\ UNCHANGED <<serverAuth, user, loginError, isLoading, logins>>
    /\ UNCHANGED <<wfVars, cmVars, gwVars, ovVars>>

\* fetchAuthConfig after its await: setAuthConfig and the Guest user when
\* authentication is disabled; nothing on a non-OK response; the Guest user in
\* the catch block; setLoading(false) in the finally block.
AuthConfigReturn ==
    /\ authFetch \in {"ok", "nonok", "threw"}
    /\ authConfig' = IF authFetch = "ok" THEN serverAuth ELSE authConfig
    /\ user' = CASE authFetch = "ok" /\ ~serverAuth.auth_enabled -> "Guest"
                 [] authFetch = "threw" -> "Guest"
                 [] OTHER -> user
    /\ loading' = FALSE
    /\ authFetch' = "done"
    /\ UNCHANGED <<serverAuth, loginError, isLoading, logins>>
    /\ UNCHANGED <<wfVars, cmVars, gwVars, ovVars>>

\* The Logout button of the header, shown for a user who is not the Guest; the
\* login page that may follow is mounted anew.
Logout ==
    /\ View = "app"
    /\ user \notin {"none", "Guest"}
    /\ user' = "none"
    /\ loginError' = "none"
    /\ isLoading' = FALSE
    /\ UNCHANGED <<serverAuth, authConfig, loading, authFetch, logins>>
    /\ UNCHANGED <<wfVars, cmVars, gwVars, ovVars>>

-----------------------------------------------------------------------------
(* LoginPage *)

\* handleSuccess up to its await; without credential it sets the error and
\* returns through the finally block.
HandleSuccess(cred) ==
    /\ View = "login"
    /\ FreeLogin # 0
    /\ IF cred = "missing"
       THEN /\ loginError' = "error"
            /\ isLoading' = FALSE
            /\ logins' = [logins EXCEPT ![FreeLogin] =
                            [cred |-> cred, pc |-> "done", out |-> "missing"]]
       ELSE /\ loginError' = "none"
            /\ isLoading' = TRUE
            /\ logins' = [logins EXCEPT ![FreeLogin] =
                            [cred |-> cred, pc |-> "sent", out |-> "none"]]
    /\ UNCHANGED <<serverAuth, user, authConfig, loading, authFetch>>
    /\ UNCHANGED <<wfVars, cmVars, gwVars, ovVars>>

\* /api/auth/login verifies the credential.
LoginServe(i) ==
    /\ logins[i].pc = "sent"
    /\ logins' = [logins EXCEPT ![i].pc = "answered",
                                ![i].out = IF logins[i].cred = "valid" THEN "ok" ELSE "nonok"]
    /\ UNCHANGED <<serverAuth, user, authConfig, loading, authFetch, loginError, isLoading>>
    /\ UNCHANGED <<wfVars, cmVars, gwVars, ovVars>>

\* The fetch of handleSuccess throws.
LoginThrow(i) ==
    /\ logins[i].pc = "sent"
    /\ logins' = [logins EXCEPT ![i].pc = "answered", ![i].out = "threw"]
    /\ UNCHANGED <<serverAuth, user, authConfig, loading, authFetch, loginError, isLoading>>
    /\ UNCHANGED <<wfVars, cmVars, gwVars, ovVars>>

\* handleSuccess after its await, calling onLoginSuccess whatever the answer.
LoginReturn_AnyAnswer(i) ==
    /\ logins[i].pc = "answered"
    /\ user' = "Google"
    /\ loginError' = "none"
    /\ isLoading' = FALSE
    /\ logins' = [logins EXCEPT ![i].pc = "done"]
    /\ UNCHANGED <<serverAuth, authConfig, loading, authFetch>>
    /\ UNCHANGED <<wfVars, cmVars, gwVars, ovVars>>

\* handleSuccess after its await: onLoginSuccess(data) on an OK response (the
\* login page is unmounted by it), the error otherwise; the finally block.  On
\* a page already unmounted the page's own setters do nothing.
LoginReturn(i) ==
    /\ logins[i].pc = "answered"
    /\ IF logins[i].out = "ok"
       THEN /\ user' = "Google"
            /\ loginError' = "none"
            /\ isLoading' = FALSE
       ELSE /\ user' = user
            /\ loginError' = IF View = "login" THEN "error" ELSE loginError
            /\ isLoading' = FALSE
    /\ logins' = [logins EXCEPT ![i].pc = "done"]
    /\ UNCHANGED <<serverAuth, authConfig, loading, authFetch>>
    /\ UNCHANGED <<wfVars, cmVars, gwVars, ovVars>>

\* The Dev Bypass block of the login page: rendered when devMode, which App
\* sets from authConfig.dev_mode.
DevBypassShown == View = "login" /\ authConfig.dev_mode

\* handleDevBypass, the onClick of the bypass button.
HandleDevBypass ==
    /\ DevBypassShown
    /\ user' = "Dev"
    /\ loginError' = "none"
    /\ isLoading' = FALSE
    /\ UNCHANGED <<serverAuth, authConfig, loading, authFetch, logins>>
    /\ UNCHANGED <<wfVars, cmVars, gwVars, ovVars>>

-----------------------------------------------------------------------------
(* CommentOverlay *)

\* The comments handed to the overlay, by id.
OverlayIds == 1..MaxPins

\* The board location of a comment.
Location(id) == [x |-> id - 2, y |-> 0]

\* The status of a comment: the first is open, the others are resolved.
OverlayStatus(id) == IF id = 1 THEN "OPEN" ELSE "RESOLVED"

\* The viewer's transform: nothing loaded yet, or a pan of the board.
Views == {[loaded |-> FALSE, pan |-> 0]} \cup {[loaded |-> TRUE, pan |-> p] : p \in 0..MaxPan}

\* The viewer's rectangle (getBoundingClientRect).
Width == 1

Height == 1

\* viewer.getScreenLocation(x, y): null while nothing is loaded.
GetScreenLocation(view, x, y) ==
    IF view.loaded
    THEN [null |-> FALSE, x |-> x + view.pan, y |-> y]
    ELSE [null |-> TRUE, x |-> 0, y |-> 0]

\* new Map()
EmptyMap == [id \in {} |-> [x |-> 0, y |-> 0, visible |-> FALSE]]

\* The map of updatePositions with the far bounds of the rectangle left out.
NewPositions_StrictBounds(cs, view) ==
    [id \in {c \in cs : ~GetScreenLocation(view, Location(c).x, Location(c).y).null} |->
        LET screenPos == GetScreenLocation(view, Location(id).x, Location(id).y)
        IN [x |-> screenPos.x, y |-> screenPos.y,
            visible |-> /\ screenPos.x >= 0 /\ screenPos.x < Width
                        /\ screenPos.y >= 0 /\ screenPos.y < Height]]

\* The map updatePositions builds from the comments of its closure.
NewPositions(cs, view) ==
    [id \in {c \in cs : ~GetScreenLocation(view, Location(c).x, Location(c).y).null} |->
        LET screenPos == GetScreenLocation(view, Location(id).x, Location(id).y)
        IN [x |-> screenPos.x, y |-> screenPos.y,
            visible |-> /\ screenPos.x >= 0 /\ screenPos.x <= Width
                        /\ screenPos.y >= 0 /\ screenPos.y <= Height]]

\* updatePositions of the closure over the comments cs: nothing without the
\* viewer's helper method, else setPinPositions(newPositions).
UpdatePositions(cs) ==
    IF viewerHasHelper THEN NewPositions(cs, viewerView) ELSE pinPositions

\* visibleComments: the comments, or the open ones without showResolved.
VisibleComments(showResolved) ==
    IF showResolved THEN ovComments
    ELSE {c \in ovComments : OverlayStatus(c) = "OPEN"}

\* The comments a pin is rendered for: the visible comments whose stored
\* position is flagged visible.
RenderedPins(showResolved) ==
    {c \in VisibleComments(showResolved) :
        c \in DOMAIN pinPositions /\ pinPositions[c].visible}

\* The Visualizer renders the overlay with another comment list: a new
\* updatePositions is made and the listener effect is due.
OverlayRender(cs) ==
    /\ cs # ovComments
    /\ ovComments' = cs
    /\ effectPending' = TRUE
    /\ UNCHANGED <<updateClosure, listening, viewerView, viewerHasHelper,
                   pinPositions, rafQueue>>
    /\ UNCHANGED <<wfVars, cmVars, gwVars, appVars>>

\* The listener effect runs: cleanup of the old listeners and interval, the
\* new ones with the current updatePositions, and the initial update.
OverlayEffect ==
    /\ effectPending
    /\ effectPending' = FALSE
    /\ listening' = TRUE
    /\ updateClosure' = ovComments
    /\ pinPositions' = UpdatePositions(ovComments)
    /\ UNCHANGED <<ovComments, viewerView, viewerHasHelper, rafQueue>>
    /\ UNCHANGED <<wfVars, cmVars, gwVars, appVars>>

\* The view changes (pan, zoom, a board is loaded); when the overlay hears an
\* event of it, handleViewChange requests an animation frame for the
\* updatePositions its listeners were made with.
ViewChange(v, heard) ==
    /\ v # viewerView
    /\ viewerView' = v
    /\ rafQueue' = IF heard /\ listening /\ Cardinality(rafQueue \cup {updateClosure}) <= MaxRaf
                   THEN rafQueue \cup {updateClosure}
                   ELSE rafQueue
    /\ UNCHANGED <<ovComments, updateClosure, effectPending, listening,
                   viewerHasHelper, pinPositions>>
    /\ UNCHANGED <<wfVars, cmVars, gwVars, appVars>>

\* An animation frame: the requested updatePositions runs.
RafFire(cs) ==
    /\ cs \in rafQueue
    /\ ~effectPending
    /\ rafQueue' = rafQueue \ {cs}
    /\ pinPositions' = UpdatePositions(cs)
    /\ UNCHANGED <<ovComments, updateClosure, effectPending, listening,
                   viewerView, viewerHasHelper>>
    /\ UNCHANGED <<wfVars, cmVars, gwVars, appVars>>

\* The 50 ms interval of the effect: updatePositions.
OverlayTick ==
    /\ listening
    /\ ~effectPending
    /\ pinPositions' = UpdatePositions(updateClosure)
    /\ UNCHANGED <<ovComments, updateClosure, effectPending, listening,
                   viewerView, viewerHasHelper, rafQueue>>
    /\ UNCHANGED <<wfVars, cmVars, gwVars, appVars>>

-----------------------------------------------------------------------------
(* Backend: Version-Control Sync Gateway *)

GitKinds == {"sync", "push"}

GitErrors == {"MergeConflict", "AuthFailure", "NetworkError"}

\* The ledger document of the project, and a design file next to it.
LedgerPath == "comments/comments.json"

OtherPath == "board.kicad_pcb"

Paths == {LedgerPath, OtherPath}

\* One sync or pushReview request: its kind, where it stands ("sent": not
\* begun by the gateway, "running": its git commands run on the working copy,
\* "answered": the page holds the response, "done": finished), its outcome
\* ("ok", a git error, "ConcurrencyError", or "threw"), and whether the page
\* that sent it still waits for the answer.
NoGitOp == [kind |-> "none", pc |-> "none", out |-> "none", live |-> FALSE]

\* The first request slot not used yet (0 when all are).
FreeGitOp ==
    IF \E i \in DOMAIN gitOps : gitOps[i].pc = "none"
    THEN CHOOSE i \in DOMAIN gitOps :
            /\ gitOps[i].pc = "none"
            /\ \A k \in DOMAIN gitOps : gitOps[k].pc = "none" => i <= k
    ELSE 0

\* The requests whose git commands run on the working copy.
Running == {i \in DOMAIN gitOps : gitOps[i].pc = "running"}

\* gitOps with the answer to request i: held by the page that waits for it,
\* dropped when that page is gone.
Answered(i, out) ==
    [gitOps EXCEPT ![i].pc = IF gitOps[i].live THEN "answered" ELSE "done",
                   ![i].out = out]

\* pushReview staging every changed path (git add of the whole working copy).
Staged_AddAll(d) == d

\* pushReview stages the ledger path only.
Staged(d) == d \cap {LedgerPath}

\* A file of the working copy is written: the Comment Store persists the
\* ledger, or a design file is generated or edited.
WorkingCopyChange(path) ==
    /\ path \notin dirty
    /\ dirty' = dirty \cup {path}
    /\ UNCHANGED <<isPushingComments, pushMessage, showPushDialog, pushTimers,
                   syncing, syncMessage, gitOps, workingCopyLock, commits>>
    /\ UNCHANGED <<wfVars, cmVars>>
    /\ UNCHANGED <<appVars, ovVars>>

\* The gateway begins an operation without taking the working copy.
GatewayBegin_NoLock(i) ==
    /\ gitOps[i].pc = "sent"
    /\ gitOps' = [gitOps EXCEPT ![i].pc = "running"]
    /\ workingCopyLock' = i
    /\ UNCHANGED <<isPushingComments, pushMessage, showPushDialog, pushTimers,
                   syncing, syncMessage, dirty, commits>>
    /\ UNCHANGED <<wfVars, cmVars>>
    /\ UNCHANGED <<appVars, ovVars>>

\* The gateway begins an operation: it takes the project's working copy, which
\* no other operation holds.
GatewayBegin(i) ==
    /\ gitOps[i].pc = "sent"
    /\ workingCopyLock = 0
    /\ gitOps' = [gitOps EXCEPT ![i].pc = "running"]
    /\ workingCopyLock' = i
    /\ UNCHANGED <<isPushingComments, pushMessage, showPushDialog, pushTimers,
                   syncing, syncMessage, dirty, commits>>
    /\ UNCHANGED <<wfVars, cmVars>>
    /\ UNCHANGED <<appVars, ovVars>>

\* A request waiting for the working copy gives up (lock acquisition timeout).
GatewayLockTimeout(i) ==
    /\ gitOps[i].pc = "sent"
    /\ workingCopyLock # 0
    /\ gitOps' = Answered(i, "ConcurrencyError")
    /\ UNCHANGED <<isPushingComments, pushMessage, showPushDialog, pushTimers,
                   syncing, syncMessage, workingCopyLock, dirty, commits>>
    /\ UNCHANGED <<wfVars, cmVars>>
    /\ UNCHANGED <<appVars, ovVars>>

\* sync ends: remote changes integrated, or a git error.
GatewaySyncEnd(i, out) ==
    /\ gitOps[i].kind = "sync"
    /\ gitOps[i].pc = "running"
    /\ gitOps' = Answered(i, out)
    /\ workingCopyLock' = 0
    /\ UNCHANGED <<isPushingComments, pushMessage, showPushDialog, pushTimers,
                   syncing, syncMessage, dirty, commits>>
    /\ UNCHANGED <<wfVars, cmVars>>
    /\ UNCHANGED <<appVars, ovVars>>

\* pushReview ends: it staged the ledger path, committed (with nothing staged:
\* an empty commit, or no commit) and pushed, the push succeeding or failing
\* with a git error.
GatewayPushEnd(i, out, empty) ==
    /\ gitOps[i].kind = "push"
    /\ gitOps[i].pc = "running"
    /\ commits' = IF Staged(dirty) = {} /\ ~empty
                  THEN commits
                  ELSE Append(commits, [paths |-> Staged(dirty),
                                        left |-> dirty \ Staged(dirty)])
    /\ dirty' = dirty \ Staged(dirty)
    /\ gitOps' = Answered(i, out)
    /\ workingCopyLock' = 0
    /\ UNCHANGED <<isPushingComments, pushMessage, showPushDialog, pushTimers,
                   syncing, syncMessage>>
    /\ UNCHANGED <<wfVars, cmVars>>
    /\ UNCHANGED <<appVars, ovVars>>

\* The fetch of handleSync or handlePushComments throws (network): the request
\* never arrives.
GitThrow(i) ==
    /\ gitOps[i].pc = "sent"
    /\ gitOps[i].live
    /\ gitOps' = [gitOps EXCEPT ![i].pc = "answered", ![i].out = "threw"]
    /\ UNCHANGED <<isPushingComments, pushMessage, showPushDialog, pushTimers,
                   syncing, syncMessage, workingCopyLock, dirty, commits>>
    /\ UNCHANGED <<wfVars, cmVars>>
    /\ UNCHANGED <<appVars, ovVars>>

-----------------------------------------------------------------------------
(* Visualizer: Push Comments *)

\* setPushMessage(null)
NoPushMessage == [type |-> "none", of |-> 0]

\* The Push Comments button, disabled while the list is empty.
OpenPushDialog ==
    /\ comments # <<>>
    /\ ~showPushDialog
    /\ showPushDialog' = TRUE
    /\ UNCHANGED <<isPushingComments, pushMessage, pushTimers,
                   syncing, syncMessage, gitOps, workingCopyLock, dirty, commits>>
    /\ UNCHANGED <<wfVars, cmVars>>
    /\ UNCHANGED <<appVars, ovVars>>

\* The dialog is closed (Cancel, or onOpenChange).
ClosePushDialog ==
    /\ showPushDialog
    /\ showPushDialog' = FALSE
    /\ UNCHANGED <<isPushingComments, pushMessage, pushTimers,
                   syncing, syncMessage, gitOps, workingCopyLock, dirty, commits>>
    /\ UNCHANGED <<wfVars, cmVars>>
    /\ UNCHANGED <<appVars, ovVars>>

\* handlePushComments up to its await; the Push button of the dialog is
\* disabled while isPushingComments.
HandlePushComments ==
    /\ showPushDialog
    /\ ~isPushingComments
    /\ FreeGitOp # 0
    /\ isPushingComments' = TRUE
    /\ pushMessage' = NoPushMessage
    /\ gitOps' = [gitOps EXCEPT ![FreeGitOp] =
                    [kind |-> "push", pc |-> "sent", out |-> "none", live |-> TRUE]]
    /\ UNCHANGED <<showPushDialog, pushTimers, syncing, syncMessage,
                   workingCopyLock, dirty, commits>>
    /\ UNCHANGED <<wfVars, cmVars>>
    /\ UNCHANGED <<appVars, ovVars>>

\* handlePushComments after its await, sending the request again when it
\* failed.
PushCommentsReturn_Retry(i) ==
    /\ gitOps[i].kind = "push"
    /\ gitOps[i].pc = "answered"
    /\ IF gitOps[i].out = "ok"
       THEN /\ pushMessage' = [type |-> "success", of |-> i]
            /\ showPushDialog' = FALSE
            /\ isPushingComments' = FALSE
            /\ pushTimers' = pushTimers \cup {i}
            /\ gitOps' = [gitOps EXCEPT ![i].pc = "done"]
       ELSE /\ gitOps' = [gitOps EXCEPT ![i].pc = "sent", ![i].out = "none"]
            /\ UNCHANGED <<pushMessage, showPushDialog, isPushingComments, pushTimers>>
    /\ UNCHANGED <<syncing, syncMessage, workingCopyLock, dirty, commits>>
    /\ UNCHANGED <<wfVars, cmVars>>
    /\ UNCHANGED <<appVars, ovVars>>

\* handlePushComments after its await: the message of the outcome, the dialog
\* closed on success, and the finally block.
PushCommentsReturn(i) ==
    /\ gitOps[i].kind = "push"
    /\ gitOps[i].pc = "answered"
    /\ IF gitOps[i].out = "ok"
       THEN /\ pushMessage' = [type |-> "success", of |-> i]
            /\ showPushDialog' = FALSE
       ELSE /\ pushMessage' = [type |-> "error", of |-> i]
            /\ showPushDialog' = showPushDialog
    /\ isPushingComments' = FALSE
    /\ pushTimers' = pushTimers \cup {i}
    /\ gitOps' = [gitOps EXCEPT ![i].pc = "done"]
    /\ UNCHANGED <<syncing, syncMessage, workingCopyLock, dirty, commits>>
    /\ UNCHANGED <<wfVars, cmVars>>
    /\ UNCHANGED <<appVars, ovVars>>

\* The 5-second timer of push request i fires: setPushMessage(null).
PushTimerFire(i) ==
    /\ i \in pushTimers
    /\ pushTimers' = pushTimers \ {i}
    /\ pushMessage' = NoPushMessage
    /\ UNCHANGED <<isPushingComments, showPushDialog, syncing, syncMessage,
                   gitOps, workingCopyLock, dirty, commits>>
    /\ UNCHANGED <<wfVars, cmVars>>
    /\ UNCHANGED <<appVars, ovVars>>

\* The Dismiss button of the message banner.
DismissPushMessage ==
    /\ pushMessage # NoPushMessage
    /\ pushMessage' = NoPushMessage
    /\ UNCHANGED <<isPushingComments, showPushDialog, pushTimers, syncing,
                   syncMessage, gitOps, workingCopyLock, dirty, commits>>
    /\ UNCHANGED <<wfVars, cmVars>>
    /\ UNCHANGED <<appVars, ovVars>>

-----------------------------------------------------------------------------
(* ProjectDetailPage: Sync *)

\* handleSync up to its await; it returns at once while syncing.
HandleSync ==
    /\ ~syncing
    /\ FreeGitOp # 0
    /\ syncing' = TRUE
    /\ syncMessage' = "none"
    /\ gitOps' = [gitOps EXCEPT ![FreeGitOp] =
                    [kind |-> "sync", pc |-> "sent", out |-> "none", live |-> TRUE]]
    /\ UNCHANGED <<isPushingComments, pushMessage, showPushDialog, pushTimers,
                   workingCopyLock, dirty, commits>>
    /\ UNCHANGED <<wfVars, cmVars>>
    /\ UNCHANGED <<appVars, ovVars>>

\* What window.location.reload() leaves of the runWorkflow invocations: the
\* ones in flight end with the page.
ReloadedSubmits ==
    [k \in DOMAIN submits |->
        IF submits[k].pc \in {"sent", "answered"}
        THEN [submits[k] EXCEPT !.pc = "done", !.type = "none",
                                !.out = IF @ = "none" THEN "threw" ELSE @]
        ELSE submits[k]]

\* The same for the comment handler invocations.
ReloadedCalls ==
    [k \in DOMAIN calls |->
        IF calls[k].pc \in {"sent", "answered"}
        THEN [calls[k] EXCEPT !.pc = "done", !.resp = NoComment, !.seen = <<>>,
                              !.context = "none", !.page = EmptyPage,
                              !.atContext = "none", !.atPage = EmptyPage,
                              !.out = IF @ = "none" THEN "threw" ELSE @]
        ELSE calls[k]]

\* The same for the handleSuccess invocations of the login page.
ReloadedLogins ==
    [k \in DOMAIN logins |->
        IF logins[k].pc \in {"sent", "answered"}
        THEN [logins[k] EXCEPT !.pc = "done",
                               !.out = IF @ = "none" THEN "threw" ELSE @]
        ELSE logins[k]]

\* The same for the sync and push requests, request i being the sync that
\* reloads: a request the gateway has not answered goes on without a page.
ReloadedGitOps(i) ==
    [k \in DOMAIN gitOps |->
        IF k = i \/ gitOps[k].pc = "answered"
        THEN [gitOps[k] EXCEPT !.pc = "done", !.live = FALSE]
        ELSE [gitOps[k] EXCEPT !.live = FALSE]]

\* window.location.reload(): the page is mounted anew; its timers, its pending
\* callbacks and its state are gone, and the Visualizer loads the ledger again.
PageReload(i) ==
    /\ runningJob' = None
    /\ logs' = <<>>
    /\ status' = "idle"
    /\ interval' = 0
    /\ clearTimers' = {}
    /\ polls' = {}
    /\ shownJob' = 0
    /\ submits' = ReloadedSubmits
    /\ comments' = ledger
    /\ pendingLocation' = FALSE
    /\ showCommentForm' = FALSE
    /\ isSubmittingComment' = FALSE
    /\ calls' = ReloadedCalls
    /\ activeContext' = "PCB"
    /\ activePage' = RootPage
    /\ pendingContext' = "PCB"
    /\ isPushingComments' = FALSE
    /\ pushMessage' = NoPushMessage
    /\ showPushDialog' = FALSE
    /\ pushTimers' = {}
    /\ syncing' = FALSE
    /\ syncMessage' = "none"
    /\ gitOps' = ReloadedGitOps(i)
    /\ user' = "none"
    /\ authConfig' = NoConfig
    /\ loading' = TRUE
    /\ authFetch' = "sent"
    /\ loginError' = "none"
    /\ isLoading' = FALSE
    /\ logins' = ReloadedLogins
    /\ updateClosure' = {}
    /\ effectPending' = TRUE
    /\ listening' = FALSE
    /\ pinPositions' = EmptyMap
    /\ rafQueue' = {}

\* handleSync after its await: on an OK response the page reloads; otherwise
\* the failure message is set and the finally block resets syncing.
SyncReturn(i) ==
    /\ gitOps[i].kind = "sync"
    /\ gitOps[i].pc = "answered"
    /\ IF gitOps[i].out = "ok"
       THEN /\ PageReload(i)
            /\ UNCHANGED <<project, jobs, ledger, nextId, serverAuth,
                           ovComments, viewerView, viewerHasHelper>>
       ELSE /\ syncMessage' = "failed"
            /\ syncing' = FALSE
            /\ gitOps' = [gitOps EXCEPT ![i].pc = "done"]
            /\ UNCHANGED <<isPushingComments, pushMessage, showPushDialog,
                           pushTimers>>
            /\ UNCHANGED <<wfVars, cmVars>>
            /\ UNCHANGED <<appVars, ovVars>>
    /\ UNCHANGED <<workingCopyLock, dirty, commits>>

-----------------------------------------------------------------------------

InitWorkflow ==
    /\ project \in ProjectStates
    /\ jobs = <<>>
    /\ runningJob = None
    /\ logs = <<>>
    /\ status = "idle"
    /\ interval = 0
    /\ clearTimers = {}
    /\ submits = [i \in 1..MaxSubmits |-> NoSubmit]
    /\ polls = {}
    /\ shownJob = 0

\* The ledgers a behaviour starts from: empty, one open comment, and an open
\* comment followed by a resolved one with a reply.
InitialLedgers ==
    { <<>>,
      <<[id |-> 1, status |-> "OPEN", replies |-> <<>>,
         context |-> "PCB", page |-> EmptyPage]>>,
      <<[id |-> 1, status |-> "OPEN", replies |-> <<>>,
         context |-> "PCB", page |-> EmptyPage],
        [id |-> 2, status |-> "RESOLVED", replies |-> <<"a">>,
         context |-> "SCH", page |-> RootPage]>> }

\* The Visualizer after its initial fetch: the list it loaded is the ledger.
InitComments ==
    /\ ledger \in InitialLedgers
    /\ nextId = Len(ledger) + 1
    /\ comments = ledger
    /\ pendingLocation = FALSE
    /\ showCommentForm = FALSE
    /\ isSubmittingComment = FALSE
    /\ calls = [i \in 1..MaxCalls |-> NoCall]
    /\ activeContext = "PCB"
    /\ activePage = RootPage
    /\ pendingContext = "PCB"

InitGateway ==
    /\ isPushingComments = FALSE
    /\ pushMessage = NoPushMessage
    /\ showPushDialog = FALSE
    /\ pushTimers = {}
    /\ syncing = FALSE
    /\ syncMessage = "none"
    /\ gitOps = [i \in 1..MaxGitOps |-> NoGitOp]
    /\ workingCopyLock = 0
    /\ dirty = {}
    /\ commits = <<>>

\* App at mount, fetchAuthConfig sent, against a backend in one of the modes.
InitApp ==
    /\ serverAuth \in ServerConfigs
    /\ user = "none"
    /\ authConfig = NoConfig
    /\ loading = TRUE
    /\ authFetch = "sent"
    /\ loginError = "none"
    /\ isLoading = FALSE
    /\ logins = [i \in 1..MaxLogins |-> NoLogin]

\* CommentOverlay at mount, its effects due, on a viewer with or without the
\* helper method.
InitOverlay ==
    /\ ovComments \in SUBSET OverlayIds
    /\ updateClosure = {}
    /\ effectPending = TRUE
    /\ listening = FALSE
    /\ viewerView = [loaded |-> FALSE, pan |-> 0]
    /\ viewerHasHelper \in BOOLEAN
    /\ pinPositions = EmptyMap
    /\ rafQueue = {}

Init == InitWorkflow /\ InitComments /\ InitGateway /\ InitApp /\ InitOverlay

\* The project page of a Production deployment, its overlay without comments
\* on a viewer that has the helper method.
InitPage == Init /\ serverAuth = Production /\ ovComments = {} /\ viewerHasHelper

NextWorkflow ==
    \/ \E t \in WorkflowTypes : RunWorkflow(t)
    \/ \E i \in 1..MaxSubmits : SubmitServe(i)
    \/ \E i \in 1..MaxSubmits : SubmitThrow(i)
    \/ \E i \in 1..MaxSubmits : SubmitApplyOk(i)
    \/ \E i \in 1..MaxSubmits : SubmitApplyErr(i)
    \/ \E j \in 1..MaxSubmits : RunnerStart(j)
    \/ \E j \in 1..MaxSubmits : RunnerToolNotFound(j)
    \/ \E j \in 1..MaxSubmits : RunnerOutput(j)
    \/ \E j \in 1..MaxSubmits : \E code \in {0, 1} : RunnerExit(j, code)
    \/ PollTick
    \/ \E m \in polls : PollServe(m)
    \/ \E m \in polls : PollThrow(m)
    \/ \E m \in polls : PollApply(m)
    \/ \E m \in polls : PollFail(m)
    \/ \E j \in clearTimers : ClearTimerFire(j)

\* The project page with the Workflows section open: no comment is loaded.
InitPanel == InitPage /\ ledger = <<>>

\* The workflow panel against the job backend.
SpecWorkflow == InitPanel /\ [][NextWorkflow]_vars

\* The polls of a panel and the Process Runner, no workflow being started.
NextRegistry ==
    \/ \E j \in 1..MaxSubmits : RunnerStart(j)
    \/ \E j \in 1..MaxSubmits : RunnerToolNotFound(j)
    \/ \E j \in 1..MaxSubmits : RunnerOutput(j)
    \/ \E j \in 1..MaxSubmits : \E code \in {0, 1} : RunnerExit(j, code)
    \/ PollTick
    \/ \E m \in polls : PollServe(m)
    \/ \E m \in polls : PollThrow(m)
    \/ \E m \in polls : PollApply(m)
    \/ \E m \in polls : PollFail(m)
    \/ \E j \in clearTimers : ClearTimerFire(j)

\* The panel polling job 1 after runWorkflow returned: the registry holds the
\* job as queued and nothing is shown yet, or the backend process was started
\* anew and its registry holds no job, whatever the panel shows.
InitRegistry ==
    /\ InitComments /\ ledger = <<>>
    /\ InitGateway
    /\ InitApp /\ serverAuth = Production
    /\ InitOverlay /\ ovComments = {} /\ viewerHasHelper
    /\ project \in ProjectStates
    /\ project.jobset
    /\ jobs \in {<<>>, <<NewJob("design")>>}
    /\ runningJob = [id |-> 1, type |-> "design"]
    /\ interval = 1
    /\ status = "running"
    /\ logs \in {<<>>, <<"out">>}
    /\ jobs # <<>> => logs = <<>>
    /\ shownJob = IF logs = <<>> THEN 0 ELSE 1
    /\ clearTimers = {}
    /\ polls = {}
    /\ submits = [i \in 1..MaxSubmits |->
                    IF i = 1 THEN [type |-> "none", pc |-> "done", out |-> "ok", job |-> 1]
                    ELSE NoSubmit]

SpecRegistry == InitRegistry /\ [][NextRegistry]_vars

NextComments ==
    \/ \E context \in CommentContexts \cup {"none"} : HandleCommentClick(context)
    \/ HandleSubmitComment
    \/ \E id \in Ids(comments) : \E r \in BOOLEAN : HandleResolveComment(id, r)
    \/ \E id \in Ids(comments) : \E t \in Contents : HandleReplyComment(id, t)
    \/ \E id \in Ids(comments) : HandleDeleteComment(id)
    \/ \E i \in 1..MaxCalls : StoreServe(i)
    \/ \E i \in 1..MaxCalls : CallThrow(i)
    \/ \E i \in 1..MaxCalls : SubmitCommentReturn(i)
    \/ \E i \in 1..MaxCalls : ResolveCommentReturn(i)
    \/ \E i \in 1..MaxCalls : ReplyCommentReturn(i)
    \/ \E i \in 1..MaxCalls : DeleteCommentReturn(i)

\* The Visualizer's comment handlers against the Comment Store of a project
\* that exists.
InitVisualizer == InitPage /\ project.exists /\ project.jobset

SpecComments == InitVisualizer /\ [][NextComments]_vars

NextSync ==
    \/ \E path \in Paths : WorkingCopyChange(path)
    \/ \E i \in 1..MaxGitOps : GatewayBegin(i)
    \/ \E i \in 1..MaxGitOps : GatewayLockTimeout(i)
    \/ \E i \in 1..MaxGitOps : \E out \in {"ok"} \cup GitErrors : GatewaySyncEnd(i, out)
    \/ \E i \in 1..MaxGitOps : \E out \in {"ok"} \cup GitErrors :
          \E empty \in BOOLEAN : GatewayPushEnd(i, out, empty)
    \/ \E i \in 1..MaxGitOps : GitThrow(i)
    \/ OpenPushDialog
    \/ ClosePushDialog
    \/ HandlePushComments
    \/ \E i \in 1..MaxGitOps : PushCommentsReturn(i)
    \/ \E i \in 1..MaxGitOps : PushTimerFire(i)
    \/ DismissPushMessage
    \/ HandleSync
    \/ \E i \in 1..MaxGitOps : SyncReturn(i)

\* The project page with the Visualizer open on a project that has one comment.
InitSync == InitPage /\ project.jobset /\ Len(ledger) = 1

\* The Sync and Push Comments actions against the Sync Gateway.
SpecSync == InitSync /\ [][NextSync]_vars

NextPlacement ==
    \/ \E context \in CommentContexts \cup {"none"} : HandleCommentClick(context)
    \/ \E kind \in CommentContexts : HandleTabActivate(kind)
    \/ \E page \in Pages : HandleSheetLoad(page)
    \/ HandleSubmitComment
    \/ \E i \in 1..MaxCalls : StoreServe(i)
    \/ \E i \in 1..MaxCalls : CallThrow(i)
    \/ \E i \in 1..MaxCalls : SubmitCommentReturn(i)

\* The Visualizer of a project without comments.
InitPlacement == InitPage /\ project.jobset /\ ledger = <<>>

\* Adding comments while the viewer changes tab and sheet.
SpecPlacement == InitPlacement /\ [][NextPlacement]_vars

\* No comment handler has been called and the comment form is closed.
CommentsIdle == calls = [i \in 1..MaxCalls |-> NoCall] /\ ~showCommentForm

\* Neither Sync nor Push Comments has been used.
GatewayIdle == InitGateway

\* A session that uses the comment handlers, or Sync and Push Comments.
NextRequests ==
    \/ GatewayIdle /\ NextComments
    \/ CommentsIdle /\ NextSync

SpecRequests == InitSync /\ [][NextRequests]_vars

\* The pages the filter is tried on: the root sheet under both of its names,
\* sheet files with and without directory, and sheet paths that end with "/".
FilterPages ==
    { RootPage, <<"root">>, <<"Subsheets", "power.kicad_sch">>, <<"power.kicad_sch">>,
      <<"", "Power", "">>, <<"", "Analog", "">> }

\* The Visualizer showing one loaded comment while the viewer changes tab and
\* sheet.
NextFilter ==
    \/ \E kind \in CommentContexts : HandleTabActivate(kind)
    \/ \E page \in FilterPages : HandleSheetLoad(page)

InitFilter ==
    /\ InitWorkflow /\ project.jobset
    /\ InitGateway
    /\ InitApp /\ serverAuth = Production
    /\ InitOverlay /\ ovComments = {} /\ viewerHasHelper
    /\ \E context \in CommentContexts : \E page \in FilterPages \cup {EmptyPage} :
          ledger = StoreCreate(<<>>, 1, context, page)
    /\ nextId = 2
    /\ comments = ledger
    /\ pendingLocation = FALSE
    /\ showCommentForm = FALSE
    /\ isSubmittingComment = FALSE
    /\ calls = [i \in 1..MaxCalls |-> NoCall]
    /\ activeContext = "PCB"
    /\ activePage = RootPage
    /\ pendingContext = "PCB"

SpecFilter == InitFilter /\ [][NextFilter]_vars

NextApp ==
    \/ \E out \in {"ok", "nonok", "threw"} : AuthConfigServe(out)
    \/ AuthConfigReturn
    \/ Logout
    \/ \E cred \in Credentials : HandleSuccess(cred)
    \/ \E i \in 1..MaxLogins : LoginServe(i)
    \/ \E i \in 1..MaxLogins : LoginThrow(i)
    \/ \E i \in 1..MaxLogins : LoginReturn(i)
    \/ HandleDevBypass

\* App at mount.
InitGate == Init /\ project.jobset /\ ledger = <<>> /\ ovComments = {} /\ viewerHasHelper

\* App and its login page against the authentication backend.
SpecApp == InitGate /\ [][NextApp]_vars

NextOverlay ==
    \/ \E cs \in SUBSET OverlayIds : OverlayRender(cs)
    \/ OverlayEffect
    \/ \E v \in Views : \E heard \in BOOLEAN : ViewChange(v, heard)
    \/ \E cs \in SUBSET OverlayIds : RafFire(cs)
    \/ OverlayTick

\* The overlay at mount.
InitPins == Init /\ project.jobset /\ ledger = <<>> /\ serverAuth = Production

\* The overlay under its viewer and its parent's renders.
SpecOverlay == InitPins /\ [][NextOverlay]_vars

\* The effect runs after the render that made it due, the interval keeps
\* ticking and a requested animation frame comes.
FairOverlay ==
    /\ WF_vars(OverlayEffect)
    /\ WF_vars(OverlayTick)
    /\ \A cs \in SUBSET OverlayIds : WF_vars(RafFire(cs))

FairSpecOverlay == InitPins /\ [][NextOverlay]_vars /\ FairOverlay

Next == NextWorkflow \/ NextRegistry \/ NextFilter \/ NextComments \/ NextPlacement \/ NextSync \/ NextApp \/ NextOverlay

Spec == Init /\ [][Next]_vars

\* The scheduling the panel and the backend run under: a request that was sent
\* is answered, a response is handled, a pending timer fires, the interval
\* keeps ticking while it is set, and a started tool run ends.  A poll may fail
\* but does not fail every time (strong fairness of PollServe).
FairWorkflow ==
    /\ \A i \in 1..MaxSubmits :
          /\ WF_vars(SubmitServe(i))
          /\ WF_vars(SubmitApplyOk(i))
          /\ WF_vars(SubmitApplyErr(i))
    /\ \A j \in 1..MaxSubmits :
          /\ WF_vars(RunnerStart(j))
          /\ WF_vars(RunnerExit(j, 0) \/ RunnerExit(j, 1))
          /\ WF_vars(ClearTimerFire(j))
    /\ WF_vars(PollTick)
    /\ SF_vars(\E m \in polls : PollServe(m))
    /\ WF_vars(\E m \in polls : PollApply(m))
    /\ WF_vars(\E m \in polls : PollFail(m))

\* The workflow panel of a project whose job-definition file is present, under
\* fair scheduling.
InitPanelJobset == InitPanel /\ project.jobset

FairSpecWorkflow == InitPanelJobset /\ [][NextWorkflow]_vars /\ FairWorkflow

-----------------------------------------------------------------------------
(* The job log and status as the panel shows them *)

\* The place of a status in queued -> running -> completed | failed.
Rank(st) ==
    CASE st = "queued" -> 0
      [] st = "running" -> 1
      [] st \in TerminalStatuses -> 2
      [] OTHER -> -1

\* A status may follow another: the same, or later in the order, and nothing
\* follows completed or failed.
Follows(a, b) ==
    \/ a = b
    \/ /\ a \notin TerminalStatuses
       /\ Rank(a) <= Rank(b)

\* C1: while the panel shows what polls of one running job returned, the
\* displayed logs after a later applied poll response are never shorter than
\* after the earlier one.
C1_LogsNeverShrink ==
    [][(/\ shownJob # 0
        /\ shownJob' = shownJob
        /\ status = "running"
        /\ status' = "running") => Len(logs') >= Len(logs)]_vars

\* C2: a job's status moves only along queued -> running -> completed or
\* failed, in the registry and in the status the panel shows for that job from
\* one applied poll response to the next; nothing follows completed or failed.
C2_StatusOrder ==
    [][/\ \A j \in DOMAIN jobs : Follows(jobs[j].status, jobs'[j].status)
       /\ (shownJob # 0 /\ shownJob' = shownJob) => Follows(status, status')]_vars

\* Polling of job j, while it stays the panel's running job, eventually shows
\* a terminal status of j.
TerminalObserved ==
    \A j \in 1..MaxSubmits :
        <>[](runningJob.id = j) => <>(shownJob = j /\ status \in TerminalStatuses)

\* C3: after a successful submit the polls of the returned job eventually
\* show completed or failed, and the status shown does not stay "running"
\* for ever.
C3_EventuallyTerminal ==
    /\ TerminalObserved
    /\ []<>(status # "running")

-----------------------------------------------------------------------------
(* Submitting *)

\* The errors submit fails with.
SubmitErrors ==
    {"InvalidWorkflowType", "ProjectNotFound", "JobsetMissing", "OutputNotDefined"}

\* The ids of the jobs the backend answered a submit with.
AcceptedJobs == {submits[i].job : i \in {k \in 1..MaxSubmits : submits[k].out = "ok"}}

\* C4: a submit the backend rejects is rejected before a job exists: the
\* registry holds exactly the jobs of the accepted submits, and the step that
\* rejects leaves it unchanged; runWorkflow, handling the rejection, sets no
\* running job, starts no interval and no poll, and sets the status to idle.
C4_RejectedSubmitCreatesNoJob ==
    /\ [](/\ \A i \in 1..MaxSubmits :
                submits[i].out \in SubmitErrors => submits[i].job = 0
          /\ DOMAIN jobs = AcceptedJobs
          /\ runningJob # None => runningJob.id \in AcceptedJobs
          /\ interval # 0 => interval \in AcceptedJobs
          /\ \A m \in polls : m.job \in AcceptedJobs)
    /\ [][\A i \in 1..MaxSubmits :
             /\ (submits[i].pc = "sent" /\ submits'[i].out \in SubmitErrors)
                   => jobs' = jobs
             /\ (/\ submits[i].pc = "answered"
                 /\ submits[i].out \in SubmitErrors
                 /\ submits'[i].pc = "done")
                   => /\ runningJob' = runningJob
                      /\ interval' = interval
                      /\ polls' = polls
                      /\ status' = "idle"]_vars

\* A rejected submit has been handled while an earlier job is the running job.
C4_Witness ==
    /\ runningJob # None
    /\ status = "idle"
    /\ \E i \in 1..MaxSubmits :
          submits[i].pc = "done" /\ submits[i].out \in SubmitErrors

\* The project exists and has no job-definition file.
LacksJobset == project.exists /\ ~project.jobset

C6_ToolFailureOnlyInPoll ==
    /\ \A j \in DOMAIN jobs :
          \E i \in 1..MaxSubmits : submits[i].job = j /\ submits[i].out = "ok"
    /\ \A i \in 1..MaxSubmits : submits[i].job # 0 => submits[i].out = "ok"
    /\ status = "failed" =>
          /\ shownJob \in DOMAIN jobs
          /\ jobs[shownJob].status = "failed"
          /\ logs = jobs[shownJob].logs

\* The panel shows a job failed because the tool could not be started, after
\* the submit that created it returned its id.
C6_Witness ==
    /\ status = "failed"
    /\ shownJob \in DOMAIN jobs
    /\ logs = <<"ToolNotFound">>
    /\ \E i \in 1..MaxSubmits :
          /\ submits[i].job = shownJob
          /\ submits[i].out = "ok"
          /\ submits[i].pc = "done"

-----------------------------------------------------------------------------
(* The comment list against the ledger *)

\* No two entries of seq have the same id.
DistinctIds(seq) ==
    \A a, b \in DOMAIN seq : seq[a].id = seq[b].id => a = b

\* The position of the entry with the given id.
Pos(seq, id) == CHOOSE k \in DOMAIN seq : seq[k].id = id

\* The invocations of one kind.
CallsOf(kind) == {i \in 1..MaxCalls : calls[i].kind = kind}

\* C7: concurrent creates yield distinct entries and none is lost, in any
\* completion order: the ids of the ledger and of the list are pairwise
\* distinct, two creates never get the same id, and every comment of the
\* ledger is in the Visualizer's list or in a create response not handled yet.
C7_CreatesAllKept ==
    /\ DistinctIds(ledger)
    /\ DistinctIds(comments)
    /\ \A i, k \in CallsOf("create") :
          (calls[i].out = "ok" /\ calls[k].out = "ok" /\ calls[i].id = calls[k].id)
             => i = k
    /\ \A id \in Ids(ledger) :
          \/ id \in Ids(comments)
          \/ \E i \in CallsOf("create") :
                calls[i].pc = "answered" /\ calls[i].out = "ok" /\ calls[i].id = id

\* Two creates were in flight together and their responses were handled in
\* the order opposite to the one the ledger got them in.
C7_Witness ==
    \E i, k \in CallsOf("create") :
        /\ calls[i].pc = "done" /\ calls[i].out = "ok"
        /\ calls[k].pc = "done" /\ calls[k].out = "ok"
        /\ calls[i].id < calls[k].id
        /\ {calls[i].id, calls[k].id} \subseteq Ids(comments)
        /\ Pos(comments, calls[k].id) < Pos(comments, calls[i].id)
        /\ Len(comments) > 2

\* The resolve invocations for one comment that asked for one status and got
\* an OK response handled.
Resolved(id, st) ==
    {i \in CallsOf("resolve") :
        /\ calls[i].id = id /\ calls[i].arg = st
        /\ calls[i].pc = "done" /\ calls[i].out = "ok"}

\* No other invocation than those of Resolved(id, st) was made for the comment.
OnlyResolved(id, st) ==
    \A i \in 1..MaxCalls :
        (calls[i].id = id /\ calls[i].kind # "create") => i \in Resolved(id, st)

\* C8: setStatus is idempotent.  In the store, setting a status twice gives
\* the ledger that setting it once gives, of the same length and with one
\* entry of that id.  In the Visualizer, handling an OK resolve response a
\* second time gives the list that handling it once gives; and when RESOLVED
\* was asked for a comment twice, and nothing else, the list holds exactly
\* one entry of that id, resolved, equal to the ledger's.
C8_SetStatusIdempotent ==
    /\ \A id \in Ids(ledger) : \A st \in CommentStatuses :
          LET once == StoreSetStatus(ledger, id, st) IN
             /\ StoreSetStatus(once, id, st) = once
             /\ Len(once) = Len(ledger)
             /\ Cardinality({k \in DOMAIN once : once[k].id = id}) = 1
             /\ Entry(once, id).status = st
    /\ \A i \in CallsOf("resolve") :
          (calls[i].pc = "answered" /\ calls[i].out = "ok") =>
             LET once == ReplaceComment(comments, calls[i].id, calls[i].resp) IN
                /\ ReplaceComment(once, calls[i].id, calls[i].resp) = once
                /\ Len(once) = Len(comments)
    /\ \A id \in Ids(ledger) :
          (Cardinality(Resolved(id, "RESOLVED")) >= 2 /\ OnlyResolved(id, "RESOLVED")) =>
             /\ Cardinality({k \in DOMAIN comments : comments[k].id = id}) = 1
             /\ Entry(comments, id).status = "RESOLVED"
             /\ Entry(comments, id) = Entry(ledger, id)

\* RESOLVED was asked twice for one comment and both responses were handled.
C8_Witness ==
    \E id \in Ids(comments) :
        /\ Cardinality(Resolved(id, "RESOLVED")) >= 2
        /\ OnlyResolved(id, "RESOLVED")
        /\ Len(comments) = 2

\* C9: a reply to a comment id the ledger does not hold fails with
\* CommentNotFound and leaves the ledger as it was, and handleReplyComment
\* leaves the comment list as it was when the response is not OK.
C9_ReplyToMissingChangesNothing ==
    [][\A i \in CallsOf("reply") :
          /\ (/\ calls[i].pc = "sent"
              /\ calls'[i].pc = "answered"
              /\ calls[i].id \notin Ids(ledger))
                => /\ calls'[i].out \in {"CommentNotFound", "threw"}
                   /\ ledger' = ledger
                   /\ nextId' = nextId
          /\ (/\ calls[i].pc = "answered"
              /\ calls[i].out # "ok"
              /\ calls'[i].pc = "done")
                => comments' = comments]_vars

\* A reply to a comment the ledger no longer holds was answered
\* CommentNotFound and handled, the comment still being listed.
C9_Witness ==
    \E i \in CallsOf("reply") :
        /\ calls[i].pc = "done"
        /\ calls[i].out = "CommentNotFound"
        /\ calls[i].id \in Ids(comments)

\* seq without its entry of the given id: the other entries, each as it was
\* and in the order they had.
IsWithout(after, before, id) ==
    /\ Ids(after) = Ids(before) \ {id}
    /\ Len(after) = Cardinality(Ids(after))
    /\ \A x \in Ids(after) : Entry(after, x) = Entry(before, x)
    /\ \A x, y \in Ids(after) :
          Pos(after, x) < Pos(after, y) <=> Pos(before, x) < Pos(before, y)

\* C10: delete removes exactly the entry with the id and fails with
\* CommentNotFound when the ledger holds none; handleDeleteComment, on an OK
\* response, leaves the list without an entry of that id and with every other
\* entry unchanged and in the same order, and on a failure leaves the list as
\* it was.
C10_DeleteRemovesExactlyOne ==
    [][\A i \in CallsOf("delete") :
          /\ (/\ calls[i].pc = "sent"
              /\ calls'[i].pc = "answered"
              /\ calls'[i].out # "threw")
                => IF calls[i].id \in Ids(ledger)
                   THEN /\ calls'[i].out = "ok"
                        /\ IsWithout(ledger', ledger, calls[i].id)
                   ELSE /\ calls'[i].out = "CommentNotFound"
                        /\ ledger' = ledger
          /\ (calls[i].pc = "answered" /\ calls'[i].pc = "done")
                => IF calls[i].out = "ok"
                   THEN IsWithout(comments', comments, calls[i].id)
                   ELSE comments' = comments]_vars

\* One delete of a comment succeeded and another of the same comment failed,
\* both were handled, and the list still holds the other comment.
C10_Witness ==
    \E i, k \in CallsOf("delete") :
        /\ calls[i].pc = "done" /\ calls[i].out = "ok"
        /\ calls[k].pc = "done" /\ calls[k].out = "CommentNotFound"
        /\ calls[i].id = calls[k].id
        /\ comments # <<>>

-----------------------------------------------------------------------------
(* Replies *)

\* s is an initial part of t.
IsPrefix(s, t) ==
    /\ Len(s) <= Len(t)
    /\ \A k \in 1..Len(s) : s[k] = t[k]

\* C11: replies are append-only and ordered by arrival: from one state to the
\* next, the reply sequence of every comment that stays in the ledger, and of
\* every comment that stays in the Visualizer's list, extends the one it had;
\* no reply is removed or reordered.
C11_RepliesAppendOnly ==
    [][/\ \A id \in Ids(ledger) \cap Ids(ledger') :
             IsPrefix(Entry(ledger, id).replies, Entry(ledger', id).replies)
       /\ \A id \in Ids(comments) \cap Ids(comments') :
             IsPrefix(Entry(comments, id).replies, Entry(comments', id).replies)]_vars

-----------------------------------------------------------------------------
(* The Sync Gateway and the working copy *)

\* C12: no two Sync Gateway operations of the project are in progress at the
\* same time: at most one request runs on the working copy, it is the one
\* that holds it, and an operation begins only when none runs.
C12_GatewayMutualExclusion ==
    /\ [](/\ Cardinality(Running) <= 1
          /\ \A i \in Running : workingCopyLock = i)
    /\ [][\A i \in 1..MaxGitOps :
             (gitOps[i].pc = "sent" /\ gitOps'[i].pc = "running") => Running = {}]_vars

\* The user started a sync and a push that are both awaited by the page: one
\* runs on the working copy and the other waits for it.
C12_Witness ==
    /\ syncing
    /\ isPushingComments
    /\ \E i, k \in 1..MaxGitOps :
          /\ gitOps[i].kind = "sync" /\ gitOps[i].pc = "running"
          /\ gitOps[k].kind = "push" /\ gitOps[k].pc = "sent"

-----------------------------------------------------------------------------
(* Who sees the workspace *)

\* The backend runs in Production mode: authentication enabled, dev mode off.
InProduction == serverAuth.auth_enabled /\ ~serverAuth.dev_mode

\* C14: in Production mode the workspace and project pages are rendered only
\* for a user set by a successful Google login: never with no user and never
\* with the Guest user, whatever the request for /api/auth/config does.
C14_ProductionRequiresLogin ==
    (InProduction /\ View = "app") => user = "Google"

\* C15: in Public Gallery mode no login is required: once /api/auth/config
\* has answered with auth_enabled = false the user is the Guest and the
\* workspace is shown, and the login page is never shown.
C15_PublicGalleryNeedsNoLogin ==
    /\ (authConfig # NoConfig /\ ~authConfig.auth_enabled) =>
          /\ user = "Guest"
          /\ ~loading
          /\ View = "app"
    /\ ~serverAuth.auth_enabled => View \in {"loading", "app"}

\* The configuration request of a Public Gallery backend was answered and
\* handled.
C15_Witness ==
    /\ serverAuth = PublicGallery
    /\ authConfig = PublicGallery
    /\ authFetch = "done"
    /\ user = "Guest"
    /\ View = "app"

-----------------------------------------------------------------------------
(* Pins *)

\* The stored positions are the ones updatePositions computes from the
\* current comment list and the viewer's current transform.
PinsAttached ==
    /\ ~effectPending
    /\ pinPositions = NewPositions(ovComments, viewerView)

\* C16: on a viewer that offers getScreenLocation, after any view change the
\* stored position of every pin is eventually the screen location the viewer
\* returns for it now; and, once the effect of a render has run, the position
\* map holds no id that is not in the current comment list.
C16_PinsFollowTheView ==
    /\ viewerHasHelper => []<>PinsAttached
    /\ [](~effectPending => DOMAIN pinPositions \subseteq ovComments)

-----------------------------------------------------------------------------
(* Where a new comment's pin is shown *)

\* C17: after a comment is added its pin is placed where it was added: when
\* handleSubmitComment has added the comment of an OK response, and the
\* active context and the active page are the ones of the moment it was
\* submitted, the comment is among overlayComments.
C17_NewCommentInOverlay ==
    [][\A i \in CallsOf("create") :
          (/\ calls[i].pc = "answered"
           /\ calls[i].out = "ok"
           /\ calls'[i].pc = "done"
           /\ activeContext' = calls[i].atContext
           /\ activePage' = calls[i].atPage)
             => calls[i].id \in Ids(OverlayComments(comments', activeContext', activePage'))]_vars

-----------------------------------------------------------------------------
(* Retries *)

\* The kinds of request the handlers send.
RequestKinds == {"sync", "push", "create", "resolve", "reply", "delete"}

\* A request of the kind is sent in this step.
NewRequestOf(kind) ==
    \/ \E i \in DOMAIN gitOps :
          /\ gitOps'[i].kind = kind /\ gitOps'[i].pc = "sent"
          /\ ~(gitOps[i].kind = kind /\ gitOps[i].pc = "sent")
    \/ \E i \in DOMAIN calls :
          /\ calls'[i].kind = kind /\ calls'[i].pc = "sent"
          /\ ~(calls[i].kind = kind /\ calls[i].pc = "sent")

\* The step is the user action that starts a request of the kind.
UserActionOf(kind) ==
    CASE kind = "sync" -> HandleSync
      [] kind = "push" -> HandlePushComments
      [] kind = "create" -> HandleSubmitComment
      [] kind = "resolve" ->
            \E id \in Ids(comments) : \E r \in BOOLEAN : HandleResolveComment(id, r)
      [] kind = "reply" ->
            \E id \in Ids(comments) : \E t \in Contents : HandleReplyComment(id, t)
      [] kind = "delete" -> \E id \in Ids(comments) : HandleDeleteComment(id)

\* C18: no error triggers an automatic retry: a sync, push, create, reply,
\* setStatus or delete request is sent only by the step of a user action that
\* starts one, so after a failed request no further request of its kind is
\* sent until the user acts again.
C18_NoAutomaticRetry ==
    [][\A kind \in RequestKinds : NewRequestOf(kind) => UserActionOf(kind)]_vars

\* A push has failed and its handler has returned, and no request to the
\* gateway is in flight.
C18_Witness ==
    /\ \E i \in DOMAIN gitOps :
          /\ gitOps[i].kind = "push" /\ gitOps[i].pc = "done"
          /\ gitOps[i].out \in GitErrors \cup {"threw"}
    /\ \A k \in DOMAIN gitOps : gitOps[k].pc \notin {"sent", "answered"}
    /\ ~isPushingComments

-----------------------------------------------------------------------------
(* The end of polling *)

\* The interval of a job whose final update was applied is eventually cleared.
IntervalEventuallyCleared ==
    \A j \in 1..MaxSubmits : (j \in clearTimers) ~> (interval # j)

\* Once cleared after the final update, the interval of the job is not set
\* again, and a poll request is sent only for the job of the set interval.
NoPollAfterClear ==
    /\ \A j \in 1..MaxSubmits :
          [](j \in clearTimers => [](interval # j => [](interval # j)))
    /\ [][\A m \in polls' \ polls : m.st = "sent" => m.job = interval]_vars

\* While the response shown is a final one, the displayed logs and status
\* change only when a poll response is applied or the user runs a workflow.
FinalUpdateStays ==
    [][(/\ shownJob # 0
        /\ status \in TerminalStatuses
        /\ (logs' # logs \/ status' # status))
          => \/ \E m \in polls : PollApply(m)
             \/ \E t \in WorkflowTypes : RunWorkflow(t)]_vars

\* C19: polling stops after the final update: once a poll response with
\* status completed or failed has been applied, the interval of that job is
\* eventually cleared, from then on no poll request for the job is sent, and
\* the displayed logs and status stay those of the last applied response.
C19_PollingStops ==
    /\ IntervalEventuallyCleared
    /\ NoPollAfterClear
    /\ FinalUpdateStays

-----------------------------------------------------------------------------
(* Polls that fail *)

\* The job ids a poll asks for.
JobIds == 1..MaxSubmits

\* C20: get for an unknown job id fails with JobNotFound, and a failed poll
\* changes nothing in the client: when a poll gets a non-OK response or
\* throws, the displayed logs and status are those before the poll.
C20_FailedPollChangesNothing ==
    /\ [](/\ \A id \in JobIds \ DOMAIN jobs :
                ~GetJob(jobs, id).ok /\ GetJob(jobs, id).status = "JobNotFound"
          /\ \A m \in polls :
                /\ m.st = "ok" => m.job \in DOMAIN jobs
                /\ (m.st = "error" /\ m.job \notin DOMAIN jobs)
                      => m.status \in {"JobNotFound", "threw"})
    /\ [][(\/ \E m \in polls' \ polls : m.st = "error"
           \/ \E m \in polls \ polls' : m.st = "error")
             => logs' = logs /\ status' = status]_vars

\* A poll for a job the registry does not hold was answered JobNotFound while
\* the panel shows the logs of the running job.
C20_Witness ==
    /\ \E m \in polls : m.st = "error" /\ m.status = "JobNotFound"
    /\ logs # <<>>
    /\ status = "running"

-----------------------------------------------------------------------------
(* One job in flight *)

\* The job the panel submitted last has not reached a terminal status in the
\* registry, or a submit request of the panel is pending.
JobInFlight ==
    \/ \E i \in 1..MaxSubmits : submits[i].pc \in {"sent", "answered"}
    \/ /\ runningJob # None
       /\ runningJob.id \in DOMAIN jobs
       /\ jobs[runningJob.id].status \notin TerminalStatuses

\* C21: the workflow panel keeps at most one of its jobs in flight: while the
\* job submitted last has not been observed in a terminal status (queued
\* included, and while the submit request is pending), the three workflow
\* buttons are disabled and no second submit request is sent.
C21_OneJobInFlight ==
    /\ [](JobInFlight => ButtonsDisabled)
    /\ [][JobInFlight =>
            \A i \in 1..MaxSubmits : submits'[i].pc = "sent" => submits[i].pc = "sent"]_vars

-----------------------------------------------------------------------------
(* Whose logs the panel shows *)

\* A job was accepted for the panel after job j: it is the running job, or
\* the OK response of its runWorkflow is about to be applied.
SupersededJob(j) ==
    \/ runningJob # None /\ runningJob.id > j
    \/ \E i \in 1..MaxSubmits :
          submits[i].pc = "answered" /\ submits[i].out = "ok" /\ submits[i].job > j

\* C22: the logs and status the panel shows belong to the current job only:
\* after runWorkflow has been called for a new job, no poll response of a job
\* submitted before (in flight, or sent in the delay before its interval is
\* cleared) overwrites the displayed logs or status.
C22_DisplayOfCurrentJob ==
    [][\A m \in polls : PollApply(m) => ~SupersededJob(m.job)]_vars

-----------------------------------------------------------------------------
(* The overlay filter *)

\* The last segment of a page's path ("" for the empty page).
LastSegment(p) == IF p = EmptyPage THEN "" ELSE p[Len(p)]

\* The names of the root sheet.
RootNames == {"root", "root.kicad_sch"}

\* Two last segments name the same page.
SameSegment(a, b) == a = b \/ (a \in RootNames /\ b \in RootNames)

\* The comments the overlay is handed, by id.
OverlayIdsShown == Ids(OverlayComments(comments, activeContext, activePage))

\* C23 as stated: the overlay filter keeps a comment exactly when its context
\* is the active context and, when the active context is SCH, the last path
\* segment of its page equals the last path segment of the active page, root
\* and root.kicad_sch being the same page; under PCB every PCB comment is kept.
C23_FilterByLastSegment ==
    \A k \in DOMAIN comments :
        comments[k].id \in OverlayIdsShown
            <=> /\ comments[k].context = activeContext
                /\ activeContext = "SCH"
                      => SameSegment(LastSegment(comments[k].page), LastSegment(activePage))

\* What the filter compares of a page: its last segment, or the whole page
\* when the last segment is empty.
PageKey(p) ==
    IF LastSegment(p) = "" THEN p ELSE <<LastSegment(p)>>

\* C23 amended: the overlay filter keeps a comment exactly when its context is
\* the active context and, when the active context is SCH, the last path
\* segment of its page, or the whole page when that segment is empty, equals
\* that of the active page, root and root.kicad_sch being the same page;
\* under PCB every PCB comment is kept.
C23_FilterByPageKey ==
    \A k \in DOMAIN comments :
        comments[k].id \in OverlayIdsShown
            <=> /\ comments[k].context = activeContext
                /\ activeContext = "SCH"
                      => \/ PageKey(comments[k].page) = PageKey(activePage)
                         \/ /\ LastSegment(comments[k].page) \in RootNames
                            /\ LastSegment(activePage) \in RootNames

\* A schematic comment of a sheet path ending with "/" is dropped on another
\* sheet whose path ends with "/", and a root comment is kept on the root
\* sheet under its other name.
C23_Witness ==
    /\ activeContext = "SCH"
    /\ \E k \in DOMAIN comments :
          /\ comments[k].context = "SCH"
          /\ \/ /\ LastSegment(comments[k].page) = ""
                /\ comments[k].page # EmptyPage
                /\ LastSegment(activePage) = ""
                /\ comments[k].page # activePage
                /\ comments[k].id \notin OverlayIdsShown
             \/ /\ comments[k].page = <<"root">>
                /\ activePage = RootPage
                /\ comments[k].id \in OverlayIdsShown

-----------------------------------------------------------------------------
(* Which pins are rendered *)

-----------------------------------------------------------------------------
(* The order of the comment list *)

\* The handler of invocation i applies an OK response in this step.
AppliesOk(i) ==
    /\ calls[i].pc = "answered"
    /\ calls[i].out = "ok"
    /\ calls'[i].pc = "done"

\* C25: the Visualizer's comment list stays ordered by insertion: a
\* successful create appends the new comment at the end, and a successful
\* setStatus or reply response replaces only the entry with the same id,
\* leaving the length of the list, the order of ids and every other entry
\* unchanged.
C25_ListOrderKept ==
    [][\A i \in 1..MaxCalls :
          AppliesOk(i) =>
             /\ calls[i].kind = "create" =>
                   /\ Len(comments') = Len(comments) + 1
                   /\ SubSeq(comments', 1, Len(comments)) = comments
                   /\ comments'[Len(comments')] = calls[i].resp
             /\ calls[i].kind \in {"resolve", "reply"} =>
                   /\ Len(comments') = Len(comments)
                   /\ \A k \in DOMAIN comments :
                         /\ comments'[k].id = comments[k].id
                         /\ comments[k].id # calls[i].id => comments'[k] = comments[k]
                         /\ comments[k].id = calls[i].id => comments'[k] = calls[i].resp]_vars

\* A reply response was applied to the first of the listed comments, which
\* is still the first, and a create response was applied.
C25_Witness ==
    /\ Len(comments) >= 3
    /\ comments[1].replies # <<>>
    /\ \E i \in CallsOf("reply") :
          calls[i].pc = "done" /\ calls[i].out = "ok" /\ calls[i].id = comments[1].id
    /\ \E i \in CallsOf("create") :
          /\ calls[i].pc = "done" /\ calls[i].out = "ok"
          /\ calls[i].id = comments[Len(comments)].id

-----------------------------------------------------------------------------
(* The comment list once the requests are over *)

\* No request of a comment handler is in flight.
NoCallInFlight == \A i \in 1..MaxCalls : calls[i].pc \in {"none", "done"}

\* C26: the Visualizer's comment list converges to the ledger: for every
\* interleaving of create, reply, setStatus and delete requests and of their
\* responses, once no request is in flight the list and the ledger hold the
\* same ids and each listed comment equals the ledger's comment with its id.
C26_ListConvergesToLedger ==
    NoCallInFlight =>
        /\ Ids(comments) = Ids(ledger)
        /\ \A k \in DOMAIN comments :
              comments[k].id \in Ids(ledger)
                 => comments[k] = Entry(ledger, comments[k].id)

-----------------------------------------------------------------------------
(* Deleted comments *)

\* The ids a successful delete response has removed from the list.
DeletedIds ==
    {calls[i].id : i \in {k \in CallsOf("delete") :
                              calls[k].pc = "done" /\ calls[k].out = "ok"}}

\* C27: a deleted comment is never brought back: once a successful delete
\* response has removed a comment from the Visualizer's list, no reply or
\* setStatus response for that id that arrives later puts an entry with that
\* id back into the list.
C27_DeletedStaysDeleted ==
    /\ [](DeletedIds \cap Ids(comments) = {})
    /\ [][\A i \in CallsOf("resolve") \cup CallsOf("reply") :
             (calls[i].id \in DeletedIds /\ calls'[i].pc = "done")
                => calls[i].id \notin Ids(comments')]_vars

\* A delete response has removed a comment while the OK response of a reply
\* or setStatus request for the same id is still to be applied.
C27_Witness ==
    \E i \in CallsOf("resolve") \cup CallsOf("reply") :
        /\ calls[i].pc = "answered"
        /\ calls[i].out = "ok"
        /\ calls[i].id \in DeletedIds
        /\ calls[i].id \notin Ids(comments)

-----------------------------------------------------------------------------
(* The result message of a push *)

\* The page is loaded anew in this step (a sync succeeded).
Reloads == \E i \in 1..MaxGitOps : gitOps[i].kind = "sync" /\ SyncReturn(i)

\* C28: the result message of a push is cleared only by the Dismiss action,
\* by the start of a new push, or by the 5-second timer started when that
\* same push finished: the timer of an earlier push never clears the message
\* of a later push.
C28_MessageClearedByOwnTimer ==
    [][(pushMessage # NoPushMessage /\ pushMessage' = NoPushMessage /\ ~Reloads)
          => \/ DismissPushMessage
             \/ HandlePushComments
             \/ PushTimerFire(pushMessage.of)]_vars

-----------------------------------------------------------------------------
(* C29 *)

\* A handleSuccess invocation ends in this step: without credential at its
\* start, or after its await.
LoginOutcome(i) ==
    \/ LoginReturn(i)
    \/ /\ logins[i].pc = "none"
       /\ logins'[i].pc = "done"

\* C29: the login page establishes a user only by handleSuccess after
\* /api/auth/login answered OK to the credential, or by the dev bypass while
\* devMode is true.  A handleSuccess that got no credential, a non-OK answer or
\* a thrown request leaves the user as it was and sets the error message on the
\* login page, and after every outcome of handleSuccess isLoading is false.
C29_LoginOnlyWhenAccepted ==
    [][/\ (user' \in {"Google", "Dev"} /\ user' # user)
            => \/ \E i \in 1..MaxLogins :
                    /\ LoginReturn(i)
                    /\ logins[i].cred = "valid"
                    /\ logins[i].out = "ok"
               \/ HandleDevBypass /\ authConfig.dev_mode /\ user' = "Dev"
       /\ \A i \in 1..MaxLogins :
            LoginOutcome(i) =>
                /\ isLoading' = FALSE
                /\ logins'[i].out # "ok" =>
                        /\ user' = user
                        /\ View = "login" => loginError' = "error"]_vars

\* One handleSuccess has ended on a non-OK answer or a thrown request and
\* another on an accepted credential, which established the Google user.
C29_Witness ==
    /\ \E i \in 1..MaxLogins :
            logins[i].pc = "done" /\ logins[i].out \in {"nonok", "threw"}
    /\ \E k \in 1..MaxLogins :
            logins[k].pc = "done" /\ logins[k].cred = "valid" /\ logins[k].out = "ok"
    /\ user = "Google"
    /\ ~isLoading

====
